---- MODULE Spec2Model ----
(***************************************************************************)
(* State-machine model of the ORD Schema Viewer (tools/schema-viewer):     *)
(* schema parsing, graph expansion, selection, URL synchronisation.        *)
(*                                                                         *)
(* A JavaScript string is a sequence of one-character strings, so that     *)
(* template literals, split('-'), join('-') and the \w+ regular expression *)
(* are computed the way the code computes them.  null, undefined and the   *)
(* empty string are all the empty sequence (the code only tests them for   *)
(* truthiness).                                                            *)
(***************************************************************************)
EXTENDS Integers, Sequences, FiniteSets

VARIABLES
  files,                   \* server side: schema name -> schema document
  schema,                  \* state.schema: the name of the document it holds
  nodes,                   \* state.nodes (a Map, kept in insertion order)
  displayedNodes,          \* state.displayedNodes
  displayedLinks,          \* state.displayedLinks
  selectedNode,            \* state.selectedNode
  selectedLink,            \* state.selectedLink
  showLabels,              \* state.showLabels
  density,                 \* state.density
  stateCurrentSchemaName,  \* state.currentSchemaName
  currentSchemaName,       \* app.js module variable currentSchemaName
  depthSlider,             \* value of the #depth-slider element
  url,                     \* query parameters of window.location
  sidebar,                 \* #sidebar: collapsed class and rendered content
  rendered,                \* data joined to the D3 layers by updateGraph
  inflight,                \* schema fetches awaiting their response
  timers,                  \* pending setTimeout callbacks, in firing order
  searchResults,           \* results rendered into #search-results
  stack,                   \* call stack of a step-wise expandNode run
  events,                  \* handlers run since the page was first opened
  op                       \* the handler that ran last and what it called

vars == <<files, schema, nodes, displayedNodes, displayedLinks, selectedNode,
          selectedLink, showLabels, density, stateCurrentSchemaName,
          currentSchemaName, depthSlider, url, sidebar, rendered, inflight,
          timers, searchResults, stack, events, op>>

-----------------------------------------------------------------------------
(* Bounds of the model *)

MaxDefs == 2          \* definitions per generated schema document (SpecParse)
MaxDepth == 2         \* largest value the depth slider is dragged to
MaxInflight == 1      \* schema fetches outstanding at once
MaxTimers == 1        \* deferred callbacks pending at once
MaxEvents == 7        \* handlers run in one session of the page
MaxRacing == 2        \* schema fetches outstanding at once, racing loads
MaxRows == 3          \* sidebar rows carrying a tooltip
MaxTooltips == 12     \* sidebar tooltip instances created in one session
MaxScroll == 5        \* scroll positions 0..MaxScroll
MaxHistory == 3       \* entries of the session history
MaxRetries == 3       \* retries of one fetchWithRetry call

(* Program constants *)

ResetDepth == 1       \* reset button: depth back to 1
ExpandAllDepth == 5   \* expand-all button: depth 5
DefaultDepth == 1     \* parseInt(...) || 1
SearchCap == 50       \* .slice(0, 50)
MinParts == 3         \* parts.length >= 3

-----------------------------------------------------------------------------
(* Strings *)

Null == <<>>

Min(S) == CHOOSE x \in S : \A y \in S : x <= y

Document == <<"D","o","c","u","m","e","n","t">>
Configuration == <<"C","o","n","f","i","g","u","r","a","t","i","o","n">>
SCHEMAS == {Document, Configuration}

DefsPrefix == <<"#","/","d","e","f","i","n","i","t","i","o","n","s","/">>

NonWordChars == {"-", "/", "#", ".", " ", ":", "<", ">", "&"}
IsWordChar(c) == c \notin NonWordChars

RECURSIVE Split(_, _)
Split(s, c) ==
  LET idx == {i \in 1..Len(s) : s[i] = c}
  IN IF idx = {} THEN <<s>>
     ELSE <<SubSeq(s, 1, Min(idx) - 1)>> \o Split(SubSeq(s, Min(idx) + 1, Len(s)), c)

RECURSIVE Join(_, _)
Join(parts, c) ==
  IF Len(parts) = 0 THEN <<>>
  ELSE IF Len(parts) = 1 THEN parts[1]
  ELSE parts[1] \o <<c>> \o Join(Tail(parts), c)

LinkId(source, target, property) ==
  source \o <<"-">> \o target \o <<"-">> \o property

Digits == <<"0","1","2","3","4","5","6","7","8","9">>
NaN == -1
StringOf(n) == <<Digits[n + 1]>>
ParseInt(s) ==
  IF Len(s) > 0 /\ \E d \in 1..10 : Digits[d] = s[1]
  THEN (CHOOSE d \in 1..10 : Digits[d] = s[1]) - 1
  ELSE NaN
Truthy(n) == n # NaN /\ n # 0

UpperCase == <<"A","B","C","D","E","F","G","H","I","J","K","L","M",
               "N","O","P","Q","R","S","T","U","V","W","X","Y","Z">>
LowerCase == <<"a","b","c","d","e","f","g","h","i","j","k","l","m",
               "n","o","p","q","r","s","t","u","v","w","x","y","z">>
IsUpper(c) == \E i \in 1..26 : UpperCase[i] = c
IsLower(c) == \E i \in 1..26 : LowerCase[i] = c
ToLowerChar(c) ==
  IF IsUpper(c) THEN LowerCase[CHOOSE i \in 1..26 : UpperCase[i] = c] ELSE c
ToUpperChar(c) ==
  IF IsLower(c) THEN UpperCase[CHOOSE i \in 1..26 : LowerCase[i] = c] ELSE c
toLowerCase(s) == SubSeq([i \in 1..Len(s) |-> ToLowerChar(s[i])], 1, Len(s))

RECURSIVE Trim(_)
Trim(s) ==
  IF s = <<>> THEN s
  ELSE IF Head(s) = " " THEN Trim(Tail(s))
  ELSE IF s[Len(s)] = " " THEN Trim(SubSeq(s, 1, Len(s) - 1))
  ELSE s

RECURSIVE SpaceBeforeCapitals(_)
SpaceBeforeCapitals(s) ==
  IF s = <<>> THEN <<>>
  ELSE (IF IsUpper(Head(s)) THEN <<" ", Head(s)>> ELSE <<Head(s)>>)
       \o SpaceBeforeCapitals(Tail(s))

formatName(name) ==
  LET spaced == SpaceBeforeCapitals(name)
      upped == IF spaced = <<>> THEN spaced
               ELSE <<ToUpperChar(Head(spaced))>> \o Tail(spaced)
  IN Trim(upped)

Includes(s, q) ==
  \E i \in 1..(Len(s) - Len(q) + 1) : SubSeq(s, i, i + Len(q) - 1) = q

-----------------------------------------------------------------------------
(* Parser *)

WordRun(s, from) ==
  LET stops == {j \in from..Len(s) : ~IsWordChar(s[j])}
  IN SubSeq(s, from, IF stops = {} THEN Len(s) ELSE Min(stops) - 1)

extractRefTarget(ref) ==
  LET n == Len(DefsPrefix)
      starts == {i \in 1..(Len(ref) - n) :
                   SubSeq(ref, i, i + n - 1) = DefsPrefix /\ IsWordChar(ref[i + n])}
  IN IF starts = {} THEN Null ELSE WordRun(ref, Min(starts) + n)

extractAssociationTarget(target) ==
  LET n == Len(DefsPrefix)
      starts == {i \in 1..(Len(target) - n) :
                   SubSeq(target, i, i + n - 1) = DefsPrefix
                   /\ IsWordChar(target[i + n])}
  IN IF starts = {} THEN Null ELSE WordRun(target, Min(starts) + n)

Relation(type, target, property, isArray, via) ==
  [type |-> type, target |-> target, property |-> property,
   isArray |-> isArray, via |-> via]

RefRelation(ref, propName, isArray, keys) ==
  IF ref # Null /\ extractRefTarget(ref) # Null /\ extractRefTarget(ref) \in keys
  THEN <<Relation("composition", extractRefTarget(ref), propName, isArray, Null)>>
  ELSE <<>>

RECURSIVE AssocRelations(_, _, _, _)
AssocRelations(targets, propName, isArray, keys) ==
  IF targets = <<>> THEN <<>>
  ELSE LET t == extractAssociationTarget(Head(targets))
       IN (IF t # Null /\ t \in keys
           THEN <<Relation("association", t, propName, isArray, Head(targets))>>
           ELSE <<>>)
          \o AssocRelations(Tail(targets), propName, isArray, keys)

RECURSIVE extractRelations(_, _)
extractRelations(properties, keys) ==
  IF properties = <<>> THEN <<>>
  ELSE LET p == Head(properties)
       IN RefRelation(p.ref, p.name, FALSE, keys)
          \o RefRelation(p.itemsRef, p.name, TRUE, keys)
          \o AssocRelations(p.assoc, p.name, FALSE, keys)
          \o AssocRelations(p.itemsAssoc, p.name, TRUE, keys)
          \o extractRelations(Tail(properties), keys)

PropertyNames(properties) == [i \in 1..Len(properties) |-> properties[i].name]

DefinitionKeys(doc) == {doc.definitions[i].key : i \in 1..Len(doc.definitions)}
Definition(doc, key) ==
  doc.definitions[CHOOSE i \in 1..Len(doc.definitions) : doc.definitions[i].key = key]

RECURSIVE FilterKeys(_, _)
FilterKeys(defs, rootId) ==
  IF defs = <<>> THEN <<>>
  ELSE (IF Head(defs).key = rootId THEN <<>> ELSE <<Head(defs).key>>)
       \o FilterKeys(Tail(defs), rootId)

MapKeyOrder(doc, rootId) == <<rootId>> \o FilterKeys(doc.definitions, rootId)

parseSchema(doc, schemaName) ==
  LET rootId == schemaName
      order == MapKeyOrder(doc, rootId)
      keys == {order[i] : i \in 1..Len(order)}
      rootName == IF doc.title # Null THEN doc.title
                  ELSE <<"O","R","D"," ">> \o schemaName
      rootNode == [id |-> rootId, name |-> rootName, type |-> "root",
                   properties |-> PropertyNames(doc.properties),
                   relations |-> extractRelations(doc.properties, keys)]
      DefNode(name) ==
        [id |-> name, name |-> formatName(name), type |-> "object",
         properties |-> PropertyNames(Definition(doc, name).properties),
         relations |-> IF name # rootId
                       THEN extractRelations(Definition(doc, name).properties, keys)
                       ELSE <<>>]
  IN [i \in 1..Len(order) |->
        IF order[i] \in DefinitionKeys(doc) THEN DefNode(order[i]) ELSE rootNode]

-----------------------------------------------------------------------------
(* Utilities of the viewer: updateURL *)

ParamNames == {"schema", "depth", "density", "labels", "node", "link"}

Has(params, k) == k \in DOMAIN params /\ params[k] # Null

updateURL(s, params) ==
  LET u1 == IF Has(params, "node") THEN [s.url EXCEPT !["link"] = Null] ELSE s.url
      u2 == IF Has(params, "link") THEN [u1 EXCEPT !["node"] = Null] ELSE u1
      u3 == IF DOMAIN params = {}
            THEN [u2 EXCEPT !["node"] = Null, !["link"] = Null] ELSE u2
  IN [s EXCEPT !.url = [k \in ParamNames |->
                          IF k \in DOMAIN params THEN params[k] ELSE u3[k]],
               !.called = @ \cup {"updateURL"}]

SetParam(s, k, v) == [s EXCEPT !.url[k] = v]

-----------------------------------------------------------------------------
(* Graph engine *)

MapKeys(m) == {m[i].id : i \in 1..Len(m)}
MapHas(m, k) == \E i \in 1..Len(m) : m[i].id = k
MapGet(m, k) == m[CHOOSE i \in 1..Len(m) : m[i].id = k]

MakeLink(id, source, target, r) ==
  [id |-> id, source |-> source, target |-> target, type |-> r.type,
   property |-> r.property, isArray |-> r.isArray, via |-> r.via]

HasLinkId(links, id) == \E i \in 1..Len(links) : links[i].id = id
FindLinkId(links, id) == links[Min({i \in 1..Len(links) : links[i].id = id})]
HasLinkTriple(links, source, target, property) ==
  \E i \in 1..Len(links) : /\ links[i].source = source
                           /\ links[i].target = target
                           /\ links[i].property = property
FindLinkTriple(links, source, target, property) ==
  links[Min({i \in 1..Len(links) : /\ links[i].source = source
                                   /\ links[i].target = target
                                   /\ links[i].property = property})]

HasRelation(relations, target, property) ==
  \E i \in 1..Len(relations) :
     relations[i].target = target /\ relations[i].property = property
FindRelation(relations, target, property) ==
  relations[Min({i \in 1..Len(relations) :
                   relations[i].target = target /\ relations[i].property = property})]

Throw(s) == [s EXCEPT !.threw = TRUE]
Called(s, f) == [s EXCEPT !.called = @ \cup {f}]

LinkIds(links) == {links[i].id : i \in 1..Len(links)}

updateGraph(s) ==
  IF \E id \in s.displayedNodes : ~MapHas(s.nodes, id)
  THEN Throw([Called(s, "updateGraph") EXCEPT !.renders = @ + 1])
                                            \* node.id of undefined
  ELSE IF \E i \in 1..Len(s.displayedLinks) :
            \/ s.displayedLinks[i].source \notin s.displayedNodes
            \/ s.displayedLinks[i].target \notin s.displayedNodes
  THEN Throw([Called(s, "updateGraph") EXCEPT !.renders = @ + 1])
                                            \* d3 forceLink: node not found
  ELSE [Called(s, "updateGraph") EXCEPT
          !.renders = @ + 1,
          !.rendered = [nodes |-> s.displayedNodes,
                        links |-> LinkIds(s.displayedLinks)]]

PushLink(s, link) == [s EXCEPT !.displayedLinks = Append(@, link)]

RECURSIVE expandNode(_, _, _)
RECURSIVE ExpandRelations(_, _, _, _)

ExpandRelations(s, nodeId, relations, depth) ==
  IF relations = <<>> THEN s
  ELSE LET relation == Head(relations)
           s1 == IF HasLinkTriple(s.displayedLinks, nodeId, relation.target,
                                  relation.property)
                 THEN s
                 ELSE PushLink(s, MakeLink(LinkId(nodeId, relation.target,
                                                  relation.property),
                                           nodeId, relation.target, relation))
           s2 == IF relation.target \notin s1.displayedNodes
                 THEN expandNode(s1, relation.target, depth - 1)
                 ELSE s1
       IN IF MapHas(s.nodes, relation.target)
          THEN ExpandRelations(s2, nodeId, Tail(relations), depth)
          ELSE ExpandRelations(s, nodeId, Tail(relations), depth)

expandNode(s, nodeId, depth) ==
  IF ~MapHas(s.nodes, nodeId) THEN s
  ELSE LET s1 == [s EXCEPT !.displayedNodes = @ \cup {nodeId}]
       IN IF depth <= 0 THEN s1
          ELSE ExpandRelations(s1, nodeId, MapGet(s.nodes, nodeId).relations, depth)

initializeGraph(s, depth, startNodeId) ==
  LET s0 == [s EXCEPT !.displayedNodes = {}, !.displayedLinks = <<>>]
      effectiveStartNode ==
        IF startNodeId # Null THEN startNodeId
        ELSE IF s.url["node"] # Null THEN s.url["node"]
        ELSE s.stateCurrentSchemaName
      s1 == IF depth = 0
            THEN [s0 EXCEPT !.displayedNodes = @ \cup {effectiveStartNode}]
            ELSE expandNode(s0, effectiveStartNode, depth)
  IN updateGraph(s1)

RECURSIVE ReverseOf(_, _, _)
ReverseOf(sourceId, relations, nodeId) ==
  IF relations = <<>> THEN <<>>
  ELSE (IF Head(relations).target = nodeId
        THEN <<[source |-> sourceId, type |-> Head(relations).type,
                property |-> Head(relations).property,
                isArray |-> Head(relations).isArray, via |-> Head(relations).via]>>
        ELSE <<>>)
       \o ReverseOf(sourceId, Tail(relations), nodeId)

RECURSIVE getReverseRelations(_, _)
getReverseRelations(m, nodeId) ==
  IF m = <<>> THEN <<>>
  ELSE (IF Head(m).id = nodeId THEN <<>>
        ELSE ReverseOf(Head(m).id, Head(m).relations, nodeId))
       \o getReverseRelations(Tail(m), nodeId)

RECURSIVE AddReverseLinks(_, _, _)
AddReverseLinks(s, nodeId, reverseRelations) ==
  IF reverseRelations = <<>> THEN s
  ELSE LET reverse == Head(reverseRelations)
           linkId == LinkId(reverse.source, nodeId, reverse.property)
           s1 == IF reverse.source \in s.displayedNodes
                    /\ ~HasLinkId(s.displayedLinks, linkId)
                 THEN PushLink(s, MakeLink(linkId, reverse.source, nodeId, reverse))
                 ELSE s
       IN AddReverseLinks(s1, nodeId, Tail(reverseRelations))

autoAddReverseLinks(s, nodeId) ==
  AddReverseLinks(s, nodeId, getReverseRelations(s.nodes, nodeId))

RECURSIVE AddForwardLinks(_, _, _)
AddForwardLinks(s, nodeId, relations) ==
  IF relations = <<>> THEN s
  ELSE LET relation == Head(relations)
           linkId == LinkId(nodeId, relation.target, relation.property)
           s1 == IF relation.target \in s.displayedNodes
                    /\ ~HasLinkId(s.displayedLinks, linkId)
                 THEN PushLink(s, MakeLink(linkId, nodeId, relation.target, relation))
                 ELSE s
       IN AddForwardLinks(s1, nodeId, Tail(relations))

autoAddForwardLinks(s, nodeId) ==
  IF ~MapHas(s.nodes, nodeId) THEN s
  ELSE AddForwardLinks(s, nodeId, MapGet(s.nodes, nodeId).relations)

-----------------------------------------------------------------------------
(* Sidebar: selection and the rendered detail pane *)

View(collapsed, kind, id, fwd, rev, keys, src, tgt) ==
  [collapsed |-> collapsed, kind |-> kind, id |-> id, fwd |-> fwd, rev |-> rev,
   keys |-> keys, src |-> src, tgt |-> tgt]

EmptyState(collapsed) == View(collapsed, "empty", Null, <<>>, <<>>, <<>>, Null, Null)
ErrorState(collapsed) == View(collapsed, "error", Null, <<>>, <<>>, <<>>, Null, Null)

renderNodeDetails(s, node) ==
  View(FALSE, "node", node.id, node.relations,
       getReverseRelations(s.nodes, node.id), node.properties, Null, Null)

renderLinkDetails(s, link) ==
  View(FALSE, "link", link.id, <<>>, <<>>, <<>>, link.source, link.target)

selectNode(s, nodeId) ==
  LET s1 == [Called(s, "selectNode") EXCEPT !.selectedNode = nodeId,
                                            !.selectedLink = Null]
  IN IF ~MapHas(s.nodes, nodeId) THEN s1
     ELSE [updateURL(s1, [node |-> nodeId]) EXCEPT
             !.sidebar = renderNodeDetails(s1, MapGet(s.nodes, nodeId))]

(* selectLink that leaves state.selectedNode as it is *)
selectLinkKeepsNode(s, linkId) ==
  LET s1 == [Called(s, "selectLink") EXCEPT !.selectedLink = linkId]
  IN IF ~HasLinkId(s.displayedLinks, linkId) THEN Called(s1, "linkNotFound")
     ELSE [updateURL(s1, [link |-> linkId]) EXCEPT
             !.sidebar = renderLinkDetails(s1, FindLinkId(s.displayedLinks, linkId))]

selectLink(s, linkId) ==
  LET s1 == [Called(s, "selectLink") EXCEPT !.selectedLink = linkId,
                                            !.selectedNode = Null]
  IN IF ~HasLinkId(s.displayedLinks, linkId) THEN Called(s1, "linkNotFound")
     ELSE [updateURL(s1, [link |-> linkId]) EXCEPT
             !.sidebar = renderLinkDetails(s1, FindLinkId(s.displayedLinks, linkId))]

addRelationToGraph(s, sourceId, relation) ==
  LET isNewNode == relation.target \notin s.displayedNodes
      s1 == IF isNewNode
            THEN [s EXCEPT !.displayedNodes = @ \cup {relation.target}] ELSE s
      linkId == LinkId(sourceId, relation.target, relation.property)
      s2 == IF HasLinkId(s1.displayedLinks, linkId) THEN s1
            ELSE PushLink(s1, MakeLink(linkId, sourceId, relation.target, relation))
      s3 == IF isNewNode THEN autoAddReverseLinks(s2, relation.target) ELSE s2
      s4 == updateGraph(Called(s3, "addRelationToGraph"))
  IN IF s4.threw THEN s4 ELSE selectNode(s4, relation.target)

HasTypedRelation(relations, target, property, type) ==
  \E i \in 1..Len(relations) : /\ relations[i].target = target
                               /\ relations[i].property = property
                               /\ relations[i].type = type
FindTypedRelation(relations, target, property, type) ==
  relations[Min({i \in 1..Len(relations) : /\ relations[i].target = target
                                           /\ relations[i].property = property
                                           /\ relations[i].type = type})]

addReverseRelationToGraph(s, targetId, sourceId, property, type) ==
  IF ~MapHas(s.nodes, sourceId) THEN s
  ELSE IF ~HasTypedRelation(MapGet(s.nodes, sourceId).relations, targetId,
                            property, type) THEN s
  ELSE LET relation == FindTypedRelation(MapGet(s.nodes, sourceId).relations,
                                         targetId, property, type)
           s1 == [s EXCEPT !.displayedNodes = @ \cup {sourceId}]
           linkId == LinkId(sourceId, targetId, property)
           s2 == IF HasLinkId(s1.displayedLinks, linkId) THEN s1
                 ELSE PushLink(s1, MakeLink(linkId, sourceId, targetId, relation))
           s3 == updateGraph(Called(s2, "addReverseRelationToGraph"))
       IN IF s3.threw THEN s3 ELSE selectNode(s3, sourceId)

RECURSIVE ExpandForward(_, _, _)
ExpandForward(s, nodeId, relations) ==
  IF relations = <<>> THEN s
  ELSE LET relation == Head(relations)
           linkId == LinkId(nodeId, relation.target, relation.property)
           s1 == [s EXCEPT !.displayedNodes = @ \cup {relation.target}]
           s2 == IF HasLinkId(s1.displayedLinks, linkId) THEN s1
                 ELSE PushLink(s1, MakeLink(linkId, nodeId, relation.target, relation))
       IN ExpandForward(IF MapHas(s.nodes, relation.target) THEN s2 ELSE s,
                        nodeId, Tail(relations))

RECURSIVE ExpandReverse(_, _, _)
ExpandReverse(s, nodeId, reverseRelations) ==
  IF reverseRelations = <<>> THEN s
  ELSE LET reverse == Head(reverseRelations)
           linkId == LinkId(reverse.source, nodeId, reverse.property)
           s1 == [s EXCEPT !.displayedNodes = @ \cup {reverse.source}]
           s2 == IF HasLinkId(s1.displayedLinks, linkId) THEN s1
                 ELSE PushLink(s1, MakeLink(linkId, reverse.source, nodeId, reverse))
       IN ExpandReverse(s2, nodeId, Tail(reverseRelations))

(* expandAllNeighbors that re-renders whether or not anything was added *)
expandAllNeighborsAlwaysRenders(s, nodeId) ==
  LET s1 == IF MapHas(s.nodes, nodeId)
            THEN ExpandForward(s, nodeId, MapGet(s.nodes, nodeId).relations)
            ELSE s
      s2 == ExpandReverse(s1, nodeId, getReverseRelations(s.nodes, nodeId))
  IN updateGraph(Called(s2, "expandAllNeighbors"))

expandAllNeighbors(s, nodeId) ==
  LET s1 == IF MapHas(s.nodes, nodeId)
            THEN ExpandForward(s, nodeId, MapGet(s.nodes, nodeId).relations)
            ELSE s
      s2 == ExpandReverse(s1, nodeId, getReverseRelations(s.nodes, nodeId))
      added == \/ s2.displayedNodes # s.displayedNodes
               \/ Len(s2.displayedLinks) # Len(s.displayedLinks)
  IN IF added THEN updateGraph(Called(s2, "expandAllNeighbors"))
     ELSE Called(s2, "expandAllNeighbors")

-----------------------------------------------------------------------------
(* Search *)

CharOrder == <<" ", "_", "-", ":", ".", "/", "#">> \o Digits \o LowerCase
CharRank(c) == IF \E i \in 1..Len(CharOrder) : CharOrder[i] = c
               THEN CHOOSE i \in 1..Len(CharOrder) : CharOrder[i] = c
               ELSE Len(CharOrder) + 1

RECURSIVE localeCompare(_, _)
localeCompare(a, b) ==
  IF a = <<>> /\ b = <<>> THEN 0
  ELSE IF a = <<>> THEN -1
  ELSE IF b = <<>> THEN 1
  ELSE IF CharRank(Head(a)) < CharRank(Head(b)) THEN -1
  ELSE IF CharRank(Head(a)) > CharRank(Head(b)) THEN 1
  ELSE localeCompare(Tail(a), Tail(b))

StartsWith(s, q) == Len(s) >= Len(q) /\ SubSeq(s, 1, Len(q)) = q
LastPiece(s, c) ==
  LET idx == {i \in 1..Len(s) : s[i] = c}
  IN IF idx = {} THEN s
     ELSE SubSeq(s, (CHOOSE i \in idx : \A j \in idx : j <= i) + 1, Len(s))

TypeWeight(type) == CASE type = "entity" -> 1 [] type = "relation" -> 2 [] OTHER -> 3

(* the comparator without the prefix rule *)
CompareResultsNoPrefix(a, b, query) ==
  LET aLower == toLowerCase(a.name)
      bLower == toLowerCase(b.name)
  IN IF TypeWeight(a.type) # TypeWeight(b.type)
     THEN TypeWeight(a.type) - TypeWeight(b.type)
     ELSE IF Len(aLower) # Len(bLower) THEN Len(aLower) - Len(bLower)
     ELSE localeCompare(aLower, bLower)

CompareResults(a, b, query) ==
  LET aLower == toLowerCase(a.name)
      bLower == toLowerCase(b.name)
      aMatchPart == IF a.type = "entity" THEN aLower ELSE LastPiece(aLower, ".")
      bMatchPart == IF b.type = "entity" THEN bLower ELSE LastPiece(bLower, ".")
      aStartsWith == StartsWith(aMatchPart, query)
      bStartsWith == StartsWith(bMatchPart, query)
  IN IF TypeWeight(a.type) # TypeWeight(b.type)
     THEN TypeWeight(a.type) - TypeWeight(b.type)
     ELSE IF aStartsWith /\ ~bStartsWith THEN -1
     ELSE IF ~aStartsWith /\ bStartsWith THEN 1
     ELSE IF Len(aLower) # Len(bLower) THEN Len(aLower) - Len(bLower)
     ELSE localeCompare(aLower, bLower)

(* Array.prototype.sort: stable, ordered by the comparator *)
SortResults(results, query) ==
  LET n == Len(results)
      rs == SubSeq(results, 1, n)
      before == SubSeq([i \in 1..n |->
                          {j \in 1..n :
                             LET c == CompareResults(rs[j], rs[i], query)
                             IN c < 0 \/ (c = 0 /\ j < i)}], 1, n)
  IN [p \in 1..n |-> rs[CHOOSE i \in 1..n : Cardinality(before[i]) + 1 = p]]

Result(type, id, name, nodeId, relation, meta) ==
  [type |-> type, id |-> id, name |-> name, nodeId |-> nodeId, relation |-> relation,
   meta |-> meta]

RECURSIVE PropertyResults(_, _, _)
PropertyResults(node, properties, query) ==
  IF properties = <<>> THEN <<>>
  ELSE LET propName == Head(properties)
           rels == {i \in 1..Len(node.relations) :
                      node.relations[i].property = propName}
       IN (IF Includes(toLowerCase(propName), query)
           THEN <<Result(IF rels # {} THEN "relation" ELSE "property",
                         node.id \o <<"-">> \o propName,
                         node.name \o <<".">> \o propName,
                         node.id,
                         IF rels # {} THEN <<node.relations[Min(rels)]>> ELSE <<>>,
                         <<>>)>>
           ELSE <<>>)
          \o PropertyResults(node, Tail(properties), query)

RECURSIVE CollectResults(_, _)
CollectResults(m, query) ==
  IF m = <<>> THEN <<>>
  ELSE LET node == Head(m)
       IN (IF \/ Includes(toLowerCase(node.name), query)
              \/ Includes(toLowerCase(node.id), query)
           THEN <<Result("entity", node.id, node.name, Null, <<>>,
                         IF node.id # node.name THEN node.id ELSE <<>>)>>
           ELSE <<>>)
          \o PropertyResults(node, node.properties, query)
          \o CollectResults(Tail(m), query)

performSearch(m, query) ==
  LET sorted == SortResults(CollectResults(m, query), query)
  IN SubSeq(sorted, 1, IF Len(sorted) < SearchCap THEN Len(sorted) ELSE SearchCap)

(* utils.js: the text as the innerHTML of an element that holds it; the    *)
(* entities are single tokens                                             *)
escapeHtml(text) ==
  [i \in 1..Len(text) |->
     CASE text[i] = "<" -> "&lt;"
       [] text[i] = ">" -> "&gt;"
       [] text[i] = "&" -> "&amp;"
       [] OTHER -> text[i]]

(* text.replace(/(query)/gi, '<mark>$1</mark>'); the tags are single tokens *)
RECURSIVE highlightMatch(_, _)
highlightMatch(text, query) ==
  IF query = <<>> \/ text = <<>> THEN text
  ELSE IF /\ Len(text) >= Len(query)
          /\ toLowerCase(SubSeq(text, 1, Len(query))) = toLowerCase(query)
  THEN <<"<mark>">> \o SubSeq(text, 1, Len(query)) \o <<"</mark>">>
       \o highlightMatch(SubSeq(text, Len(query) + 1, Len(text)), query)
  ELSE <<Head(text)>> \o highlightMatch(Tail(text), query)

Piece(source, raw, text) == [source |-> source, raw |-> raw, text |-> text]

(* the strings renderResults interpolates into searchResults.innerHTML *)
RECURSIVE renderResults(_, _)
renderResults(results, query) ==
  IF results = <<>> THEN <<>>
  ELSE LET result == Head(results)
       IN << Piece("data-id", result.id, result.id),
             Piece("data-node-id", result.nodeId, result.nodeId),
             Piece("result-name", result.name, highlightMatch(result.name, query)),
             Piece("result-meta", result.meta, result.meta) >>
          \o renderResults(Tail(results), query)

Timer(kind, id, source, target, property) ==
  [kind |-> kind, id |-> id, source |-> source, target |-> target,
   property |-> property]

setTimeout(s, timer) == [s EXCEPT !.timers = Append(@, timer)]

handleResultSelection(s, type, id, nodeId, result) ==
  IF type = "entity"
  THEN IF id \notin s.displayedNodes
       THEN LET s1 == [s EXCEPT !.displayedNodes = @ \cup {id}]
                s2 == updateGraph(autoAddForwardLinks(autoAddReverseLinks(s1, id), id))
            IN IF s2.threw THEN s2 ELSE selectNode(s2, id)
       ELSE selectNode(s, id)
  ELSE IF type = "relation"
  THEN IF result.relation # <<>>
       THEN LET relation == result.relation[1]
                s1 == [s EXCEPT !.displayedNodes = @ \cup {nodeId}]
                s2 == addRelationToGraph(s1, nodeId, relation)
                s3 == updateGraph(s2)
            IN IF s2.threw THEN s2
               ELSE IF s3.threw THEN s3
               ELSE setTimeout(s3, Timer("selectLink",
                                         LinkId(nodeId, relation.target,
                                                relation.property),
                                         Null, Null, Null))
       ELSE s
  ELSE IF type = "property"
  THEN IF nodeId \notin s.displayedNodes
       THEN LET s1 == updateGraph([s EXCEPT !.displayedNodes = @ \cup {nodeId}])
            IN IF s1.threw THEN s1 ELSE selectNode(s1, nodeId)
       ELSE selectNode(s, nodeId)
  ELSE s

-----------------------------------------------------------------------------
(* Application entry: schema loading and page initialisation *)

LinkParamBranch(s, linkParam) ==
  LET parts == Split(linkParam, "-")
      sourceId == parts[1]
      targetId == parts[2]
      property == Join(SubSeq(parts, 3, Len(parts)), "-")
      s1 == [s EXCEPT !.displayedNodes = @ \cup {sourceId, targetId}]
      nodesChanged == s1.displayedNodes # s.displayedNodes
      canPush == /\ ~HasLinkId(s1.displayedLinks, linkParam)
                 /\ MapHas(s.nodes, sourceId)
                 /\ HasRelation(MapGet(s.nodes, sourceId).relations, targetId, property)
      s2 == IF canPush
            THEN PushLink(s1, MakeLink(linkParam, sourceId, targetId,
                                       FindRelation(MapGet(s.nodes, sourceId).relations,
                                                    targetId, property)))
            ELSE s1
      s3 == IF nodesChanged \/ canPush THEN updateGraph(s2) ELSE s2
  IN IF Len(parts) >= MinParts
     THEN IF s3.threw THEN s3 ELSE selectLink(s3, linkParam)
     ELSE s

(* a response is stored only if it answers the newest request *)
loadSchemaStoreIfCurrent(s, schemaName, doc) ==
  IF schemaName = s.currentSchemaName
  THEN [s EXCEPT !.schema = schemaName, !.nodes = parseSchema(doc, schemaName)]
  ELSE s

(* loadSchema, after the awaits: state.schema and state.nodes are assigned *)
loadSchemaStore(s, schemaName, doc) ==
  [s EXCEPT !.schema = schemaName, !.nodes = parseSchema(doc, schemaName)]

loadSchemaApply(s, schemaName, doc) ==
  LET s1 == loadSchemaStore(s, schemaName, doc)
      depth == s.depthSlider
      nodeParam == s.url["node"]
      linkParam == s.url["link"]
      s2 == initializeGraph(Called(s1, "loadSchema"), depth, Null)
      s3 == IF s2.threw THEN s2
            ELSE IF nodeParam # Null THEN selectNode(s2, nodeParam)
            ELSE IF linkParam # Null THEN LinkParamBranch(s2, linkParam)
            ELSE [s2 EXCEPT !.sidebar = EmptyState(TRUE)]
  IN IF s3.threw
     THEN [s3 EXCEPT !.threw = FALSE, !.sidebar = ErrorState(s3.sidebar.collapsed),
                     !.called = @ \cup {"catch"}]
     ELSE s3

(* loadSchema with a catch block that also empties the parsed schema *)
loadSchemaFailedClears(s) ==
  [s EXCEPT !.sidebar = ErrorState(s.sidebar.collapsed),
            !.nodes = <<>>, !.schema = Null,
            !.called = @ \cup {"loadSchema", "catch"}]

loadSchemaFailed(s) ==
  [s EXCEPT !.sidebar = ErrorState(s.sidebar.collapsed),
            !.called = @ \cup {"loadSchema", "catch"}]

loadSchema(s, schemaName) ==
  [s EXCEPT !.currentSchemaName = schemaName, !.inflight = Append(@, schemaName)]

True == <<"t","r","u","e">>
False == <<"f","a","l","s","e">>
Normal == <<"n","o","r","m","a","l">>
Compact == <<"c","o","m","p","a","c","t">>
Sparse == <<"s","p","a","r","s","e">>
Airy == <<"a","i","r","y">>
DENSITY_CONFIGS == {Compact, Normal, Sparse, Airy}

PageLoad(u) ==
  LET schemaParam == IF u["schema"] # Null THEN u["schema"] ELSE Document
      name == IF schemaParam \in SCHEMAS THEN schemaParam ELSE Document
      initialDepth == IF Truthy(ParseInt(u["depth"])) THEN ParseInt(u["depth"])
                      ELSE DefaultDepth
      s0 == [schema |-> Null, nodes |-> <<>>, displayedNodes |-> {},
             displayedLinks |-> <<>>, selectedNode |-> Null, selectedLink |-> Null,
             showLabels |-> IF u["labels"] = Null THEN TRUE ELSE u["labels"] = True,
             density |-> IF u["density"] # Null THEN u["density"] ELSE Normal,
             stateCurrentSchemaName |-> name, currentSchemaName |-> name,
             depthSlider |-> initialDepth, url |-> u,
             sidebar |-> EmptyState(TRUE),
             rendered |-> [nodes |-> {}, links |-> {}],
             inflight |-> <<>>, timers |-> <<>>, searchResults |-> <<>>,
             called |-> {}, threw |-> FALSE, renders |-> 0]
  IN loadSchema(s0, name)

-----------------------------------------------------------------------------
(* The schema documents the server holds *)

Ab == <<"A","b">>
AbAb == <<"A","b","-","A","b">>
Cf == <<"C","f">>
Zz == <<"Z","z">>

Ref(name) == DefsPrefix \o name

Prop(name, ref, itemsRef, assoc, itemsAssoc) ==
  [name |-> name, ref |-> ref, itemsRef |-> itemsRef, assoc |-> assoc,
   itemsAssoc |-> itemsAssoc]

DocumentSchema ==
  [title |-> Null,
   properties |-> <<Prop(<<"a","p","i","s">>, Null, Ref(Ab), <<>>, <<>>)>>,
   definitions |->
     <<[key |-> Ab,
        properties |->
          <<Prop(<<"A","b","-","p">>, Ref(Ab), Null, <<>>, <<>>),
            Prop(<<"l","a","b","e","l">>, Null, Null, <<>>, <<>>)>>],
       [key |-> AbAb,
        properties |-> <<Prop(<<"p">>, Ref(Ab), Null, <<>>, <<>>)>>]>>]

ConfigurationSchema ==
  [title |-> <<"C","f","g">>,
   properties |-> <<Prop(<<"c","f","g">>, Ref(Cf), Null, <<>>, <<>>)>>,
   definitions |-> <<[key |-> Cf, properties |-> <<>>]>>]

Files == [name \in SCHEMAS |->
            IF name = Document THEN DocumentSchema ELSE ConfigurationSchema]

-----------------------------------------------------------------------------
(* The running page *)

Cur ==
  [schema |-> schema, nodes |-> nodes, displayedNodes |-> displayedNodes,
   displayedLinks |-> displayedLinks, selectedNode |-> selectedNode,
   selectedLink |-> selectedLink, showLabels |-> showLabels, density |-> density,
   stateCurrentSchemaName |-> stateCurrentSchemaName,
   currentSchemaName |-> currentSchemaName, depthSlider |-> depthSlider,
   url |-> url, sidebar |-> sidebar, rendered |-> rendered, inflight |-> inflight,
   timers |-> timers, searchResults |-> searchResults,
   called |-> {}, threw |-> FALSE, renders |-> 0]

Tracked == {"selectNode", "selectLink", "linkNotFound", "updateURL", "init"}

CommitHistory(r, name, history) ==
  /\ Len(r.timers) <= MaxTimers
  /\ events < MaxEvents
  /\ events' = events + 1
  /\ schema' = r.schema
  /\ nodes' = r.nodes
  /\ displayedNodes' = r.displayedNodes
  /\ displayedLinks' = r.displayedLinks
  /\ selectedNode' = r.selectedNode
  /\ selectedLink' = r.selectedLink
  /\ showLabels' = r.showLabels
  /\ density' = r.density
  /\ stateCurrentSchemaName' = r.stateCurrentSchemaName
  /\ currentSchemaName' = r.currentSchemaName
  /\ depthSlider' = r.depthSlider
  /\ url' = r.url
  /\ sidebar' = r.sidebar
  /\ rendered' = r.rendered
  /\ inflight' = r.inflight
  /\ timers' = r.timers
  /\ searchResults' = r.searchResults
  /\ op' = [called |-> r.called \cap Tracked]
  /\ stack' = history
  /\ UNCHANGED files

Commit(r, name) == CommitHistory(r, name, stack)

NoParams == [k \in ParamNames |-> Null]

InitialURLs ==
  { NoParams,
    [NoParams EXCEPT !["node"] = AbAb, !["depth"] = <<"2">>],
    [NoParams EXCEPT !["link"] = LinkId(Document, Ab, <<"a","p","i","s">>),
                     !["depth"] = <<"0">>],
    [NoParams EXCEPT !["link"] = LinkId(Document, Ab, <<"x">>)],
    [NoParams EXCEPT !["node"] = Zz, !["labels"] = False],
    [NoParams EXCEPT !["schema"] = Configuration, !["density"] = Compact] }

(* the page opened at the URL u *)
InitAt(u) ==
  LET r == PageLoad(u)
  IN /\ files = Files
     /\ schema = r.schema
     /\ nodes = r.nodes
     /\ displayedNodes = r.displayedNodes
     /\ displayedLinks = r.displayedLinks
     /\ selectedNode = r.selectedNode
     /\ selectedLink = r.selectedLink
     /\ showLabels = r.showLabels
     /\ density = r.density
     /\ stateCurrentSchemaName = r.stateCurrentSchemaName
     /\ currentSchemaName = r.currentSchemaName
     /\ depthSlider = r.depthSlider
     /\ url = r.url
     /\ sidebar = r.sidebar
     /\ rendered = r.rendered
     /\ inflight = r.inflight
     /\ timers = r.timers
     /\ searchResults = r.searchResults
     /\ stack = <<>>
     /\ events = 0
     /\ op = [called |-> {"init"}]

Init == \E u \in InitialURLs : InitAt(u)

(* A schema fetch completes: the rest of loadSchema runs *)
FetchResolve(i, ok) ==
  /\ i \in 1..Len(inflight)
  /\ LET name == inflight[i]
         s == [Cur EXCEPT !.inflight = SubSeq(inflight, 1, i - 1)
                                       \o SubSeq(inflight, i + 1, Len(inflight))]
     IN Commit(IF ok THEN loadSchemaApply(s, name, files[name])
               ELSE loadSchemaFailed(s), "FetchResolve")

(* a click on a node that selects it whether or not it is selected already *)
NodeClickAlwaysSelects(d) ==
  /\ d \in rendered.nodes
  /\ Commit(selectNode(Cur, d), "NodeClick")

(* graph.js: click on a node *)
NodeClick(d) ==
  /\ d \in rendered.nodes
  /\ Commit(IF selectedNode = d THEN expandAllNeighbors(Cur, d)
            ELSE selectNode(Cur, d), "NodeClick")

(* graph.js: click on a link *)
LinkClick(id) ==
  /\ id \in rendered.links
  /\ Commit(selectLink(Cur, id), "LinkClick")

(* app.js: click on the svg background *)
BackgroundClick ==
  Commit(updateURL([Cur EXCEPT !.selectedNode = Null, !.selectedLink = Null,
                               !.sidebar.collapsed = TRUE,
                               !.searchResults = <<>>], <<>>),
         "BackgroundClick")

(* app.js: close-sidebar button *)
CloseSidebar ==
  /\ ~sidebar.collapsed
  /\ Commit([Cur EXCEPT !.sidebar.collapsed = TRUE, !.selectedNode = Null,
                         !.searchResults = <<>>], "CloseSidebar")

(* the reset handler starting initializeGraph at the node named in the URL *)
ResetFromUrlNode ==
  LET s1 == updateURL([Cur EXCEPT !.depthSlider = ResetDepth, !.selectedNode = Null,
                                  !.selectedLink = Null, !.searchResults = <<>>],
                      [depth |-> StringOf(ResetDepth)])
      s2 == initializeGraph(s1, ResetDepth, Null)
  IN Commit(IF s2.threw THEN s2
            ELSE [s2 EXCEPT !.sidebar = EmptyState(s2.sidebar.collapsed)], "Reset")

(* app.js: reset button *)
Reset ==
  LET s1 == updateURL([Cur EXCEPT !.depthSlider = ResetDepth, !.selectedNode = Null,
                                  !.selectedLink = Null, !.searchResults = <<>>],
                      [depth |-> StringOf(ResetDepth)])
      s2 == initializeGraph(s1, ResetDepth, s1.stateCurrentSchemaName)
  IN Commit(IF s2.threw THEN s2
            ELSE [s2 EXCEPT !.sidebar = EmptyState(s2.sidebar.collapsed)], "Reset")

(* app.js: expand-all button *)
ExpandAll ==
  LET s1 == updateURL([Cur EXCEPT !.depthSlider = ExpandAllDepth,
                                  !.searchResults = <<>>],
                      [depth |-> StringOf(ExpandAllDepth)])
  IN Commit(initializeGraph(s1, ExpandAllDepth, Null), "ExpandAll")

(* app.js: depth slider change *)
DepthChange(newDepth) ==
  /\ newDepth # depthSlider
  /\ LET s1 == initializeGraph([Cur EXCEPT !.depthSlider = newDepth], newDepth, Null)
     IN Commit(IF s1.threw THEN s1 ELSE SetParam(s1, "depth", StringOf(newDepth)),
               "DepthChange")

(* app.js: edge labels toggle *)
ToggleLabels ==
  Commit(SetParam([Cur EXCEPT !.showLabels = ~showLabels,
                              !.searchResults = <<>>], "labels",
                  IF ~showLabels THEN True ELSE False), "ToggleLabels")

(* app.js: density selection *)
DensityChange(value) ==
  /\ value # density
  /\ LET s1 == updateGraph([Cur EXCEPT !.density = value])
     IN Commit(IF s1.threw THEN s1 ELSE SetParam(s1, "density", value),
               "DensityChange")

(* app.js: schema selection *)
(* app.js: popstate listener *)
popstate(s, historyState) ==
  IF historyState # Null
  THEN loadSchema(Called(s, "loadSchema"), historyState)
  ELSE s

(* app.js: schema-select change listener *)
schemaSelectChange(s, newSchemaName) ==
  LET s1 == [s EXCEPT !.selectedNode = Null, !.selectedLink = Null,
                      !.stateCurrentSchemaName = newSchemaName]
      s2 == loadSchema(Called(s1, "loadSchema"), newSchemaName)
  IN [s2 EXCEPT !.url["schema"] = newSchemaName, !.url["node"] = Null,
                !.url["link"] = Null]

SchemaChangeUpTo(newSchemaName, outstanding) ==
  /\ newSchemaName # currentSchemaName
  /\ Len(inflight) < outstanding
  /\ Commit(schemaSelectChange(Cur, newSchemaName), "SchemaChange")

SchemaChange(newSchemaName) == SchemaChangeUpTo(newSchemaName, MaxInflight)

(* the browser reloads the page at the current URL *)
Reload ==
  Commit(Called(PageLoad(url), "init"), "Reload")

FindLinkTimer(source, target, property) ==
  Timer("findLink", Null, source, target, property)

(* sidebar.js: click on the property name of a forward relation *)
RelationNameClick(s, nodeId, relations, targetId, property) ==
  IF HasLinkTriple(s.displayedLinks, nodeId, targetId, property)
  THEN selectLink(s, FindLinkTriple(s.displayedLinks, nodeId, targetId, property).id)
  ELSE IF HasRelation(relations, targetId, property)
  THEN LET s1 == addRelationToGraph(s, nodeId,
                                    FindRelation(relations, targetId, property))
       IN IF s1.threw THEN s1
          ELSE setTimeout(s1, FindLinkTimer(nodeId, targetId, property))
  ELSE s

FwdNameClick(i) ==
  /\ ~sidebar.collapsed /\ sidebar.kind = "node"
  /\ i \in 1..Len(sidebar.fwd)
  /\ Commit(RelationNameClick(Cur, sidebar.id, sidebar.fwd, sidebar.fwd[i].target,
                              sidebar.fwd[i].property), "FwdNameClick")

(* sidebar.js: click on the target of a forward relation *)
FwdTargetClick(i) ==
  /\ ~sidebar.collapsed /\ sidebar.kind = "node"
  /\ i \in 1..Len(sidebar.fwd)
  /\ LET targetId == sidebar.fwd[i].target
         property == sidebar.fwd[i].property
         linkExists == HasLinkTriple(displayedLinks, sidebar.id, targetId, property)
         s1 == IF ~linkExists /\ HasRelation(sidebar.fwd, targetId, property)
               THEN addRelationToGraph(Cur, sidebar.id,
                                       FindRelation(sidebar.fwd, targetId, property))
               ELSE Cur
     IN Commit(IF s1.threw THEN s1 ELSE selectNode(s1, targetId), "FwdTargetClick")

(* sidebar.js: click on the property name of an inverse relation *)
RevNameClick(j) ==
  /\ ~sidebar.collapsed /\ sidebar.kind = "node"
  /\ j \in 1..Len(sidebar.rev)
  /\ LET sourceId == sidebar.rev[j].source
         property == sidebar.rev[j].property
         s1 == addReverseRelationToGraph(Cur, sidebar.id, sourceId, property,
                                         sidebar.rev[j].type)
     IN Commit(IF HasLinkTriple(displayedLinks, sourceId, sidebar.id, property)
               THEN selectLink(Cur, FindLinkTriple(displayedLinks, sourceId,
                                                   sidebar.id, property).id)
               ELSE IF s1.threw THEN s1
               ELSE setTimeout(s1, FindLinkTimer(sourceId, sidebar.id, property)),
               "RevNameClick")

(* sidebar.js: click on the source of an inverse relation *)
RevTargetClick(j) ==
  /\ ~sidebar.collapsed /\ sidebar.kind = "node"
  /\ j \in 1..Len(sidebar.rev)
  /\ LET sourceId == sidebar.rev[j].source
         property == sidebar.rev[j].property
         s1 == IF HasLinkTriple(displayedLinks, sourceId, sidebar.id, property)
               THEN Cur
               ELSE addReverseRelationToGraph(Cur, sidebar.id, sourceId, property,
                                              sidebar.rev[j].type)
     IN Commit(IF s1.threw THEN s1 ELSE selectNode(s1, sourceId), "RevTargetClick")

(* sidebar.js: click on a property key that carries a relation *)
PropertyKeyClick(k) ==
  /\ ~sidebar.collapsed /\ sidebar.kind = "node"
  /\ k \in 1..Len(sidebar.keys)
  /\ \E i \in 1..Len(sidebar.fwd) : sidebar.fwd[i].property = sidebar.keys[k]
  /\ LET relation == sidebar.fwd[Min({i \in 1..Len(sidebar.fwd) :
                                        sidebar.fwd[i].property = sidebar.keys[k]})]
     IN Commit(RelationNameClick(Cur, sidebar.id, sidebar.fwd, relation.target,
                                 sidebar.keys[k]), "PropertyKeyClick")

(* NavLinkClick assigning state.selectedNode itself instead of calling selectNode *)
NavLinkClickAssigns(end) ==
  /\ ~sidebar.collapsed /\ sidebar.kind = "link"
  /\ Commit([Cur EXCEPT !.searchResults = <<>>, !.selectedLink = Null,
                         !.selectedNode = IF end = "source" THEN sidebar.src
                                          ELSE sidebar.tgt],
            "NavLinkClick")

(* sidebar.js: source / target entry of the link details *)
NavLinkClick(end) ==
  /\ ~sidebar.collapsed /\ sidebar.kind = "link"
  /\ Commit(selectNode([Cur EXCEPT !.searchResults = <<>>],
                       IF end = "source" THEN sidebar.src ELSE sidebar.tgt),
            "NavLinkClick")

(* a deferred callback registered with setTimeout runs *)
TimerFire ==
  /\ timers # <<>>
  /\ LET timer == Head(timers)
         s == [Cur EXCEPT !.timers = Tail(timers)]
     IN Commit(IF timer.kind = "selectLink" THEN selectLink(s, timer.id)
               ELSE IF HasLinkTriple(displayedLinks, timer.source, timer.target,
                                     timer.property)
               THEN selectLink(s, FindLinkTriple(displayedLinks, timer.source,
                                                 timer.target, timer.property).id)
               ELSE s, "TimerFire")

Queries == {<<"a","b">>, <<"b">>}
MinQuery == 2

(* search.js: input into the search box *)
SearchInput(query) ==
  Commit(IF Len(query) < MinQuery THEN [Cur EXCEPT !.searchResults = <<>>]
         ELSE [Cur EXCEPT !.searchResults = performSearch(nodes, query)],
         "SearchInput")

(* search.js: click on a rendered search result *)
ResultClick(i) ==
  /\ i \in 1..Len(searchResults)
  /\ LET item == searchResults[i]
         result == searchResults[Min({j \in 1..Len(searchResults) :
                                        searchResults[j].id = item.id})]
     IN Commit(handleResultSelection([Cur EXCEPT !.searchResults = <<>>],
                                     item.type, item.id, item.nodeId, result),
               "ResultClick")

Next ==
  \/ \E i \in 1..MaxInflight, ok \in BOOLEAN : FetchResolve(i, ok)
  \/ \E d \in rendered.nodes : NodeClick(d)
  \/ \E id \in rendered.links : LinkClick(id)
  \/ BackgroundClick
  \/ CloseSidebar
  \/ Reset
  \/ ExpandAll
  \/ \E newDepth \in 0..MaxDepth : DepthChange(newDepth)
  \/ \E name \in SCHEMAS : SchemaChange(name)
  \/ Reload
  \/ \E i \in 1..Len(sidebar.fwd) : FwdNameClick(i)
  \/ \E i \in 1..Len(sidebar.fwd) : FwdTargetClick(i)
  \/ \E j \in 1..Len(sidebar.rev) : RevNameClick(j)
  \/ \E j \in 1..Len(sidebar.rev) : RevTargetClick(j)
  \/ \E k \in 1..Len(sidebar.keys) : PropertyKeyClick(k)
  \/ \E end \in {"source", "target"} : NavLinkClick(end)
  \/ TimerFire
  \/ \E query \in Queries : SearchInput(query)
  \/ \E i \in 1..Len(searchResults) : ResultClick(i)

Spec == Init /\ [][Next]_vars

(* the display settings and their URL parameters *)
NextSettings ==
  \/ \E i \in 1..MaxInflight, ok \in BOOLEAN : FetchResolve(i, ok)
  \/ ToggleLabels
  \/ \E value \in DENSITY_CONFIGS : DensityChange(value)
  \/ \E newDepth \in 0..MaxDepth : DepthChange(newDepth)
  \/ ExpandAll
  \/ Reload

SpecSettings == Init /\ [][NextSettings]_vars

-----------------------------------------------------------------------------
(* parseSchema over generated schema documents *)

A == <<"A">>
B == <<"B">>
AB == <<"A","-","B">>
P == <<"p">>
Q == <<"q">>

MakeDoc(properties, definitions) ==
  [title |-> Null, properties |-> properties, definitions |-> definitions]

RefShapes(name, target) ==
  { Prop(name, Ref(target), Null, <<>>, <<>>),
    Prop(name, Null, Ref(target), <<>>, <<>>),
    Prop(name, Null, Null, <<Ref(target)>>, <<>>),
    Prop(name, Null, Null, <<>>, <<Ref(target), Ref(target) \o <<"/","i","d">> >>) }

ParseRootProperties ==
  {<<>>} \cup {<<p>> : p \in UNION {RefShapes(P, target) :
                                      target \in {A, AB, Zz, Document}}}

ParseDefProperties ==
  { <<>>,
    <<Prop(P, Ref(A), Null, <<>>, <<>>)>>,
    <<Prop(P, Ref(AB), Null, <<>>, <<>>)>>,
    <<Prop(P, Null, Null, <<Ref(Document)>>, <<>>)>>,
    <<Prop(P, Null, Ref(Zz), <<>>, <<>>)>> }

DefinitionLists(keys, propertySets) ==
  UNION { { [i \in 1..n |-> [key |-> ks[i], properties |-> ps[i]]] :
            ks \in {f \in [1..n -> keys] : \A i, j \in 1..n : i # j => f[i] # f[j]},
            ps \in [1..n -> propertySets] } : n \in 0..MaxDefs }

ParseDocs ==
  { MakeDoc(properties, definitions) :
      properties \in ParseRootProperties,
      definitions \in DefinitionLists({A, AB, Document}, ParseDefProperties) }

Blank == [PageLoad(NoParams) EXCEPT !.inflight = <<>>]

Idle(r) ==
  /\ displayedNodes = r.displayedNodes
  /\ displayedLinks = r.displayedLinks
  /\ selectedNode = r.selectedNode
  /\ selectedLink = r.selectedLink
  /\ showLabels = r.showLabels
  /\ density = r.density
  /\ stateCurrentSchemaName = r.stateCurrentSchemaName
  /\ currentSchemaName = r.currentSchemaName
  /\ depthSlider = r.depthSlider
  /\ url = r.url
  /\ sidebar = r.sidebar
  /\ rendered = r.rendered
  /\ inflight = r.inflight
  /\ timers = r.timers
  /\ searchResults = r.searchResults

InitParse ==
  \E doc \in ParseDocs :
    /\ files = [name \in SCHEMAS |-> doc]
    /\ schema = Null
    /\ nodes = <<>>
    /\ Idle(Blank)
    /\ stack = <<>>
    /\ events = 0
    /\ op = [called |-> {}]

(* state.schema = schemaData; state.nodes = parseSchema(schemaData, schemaName) *)
Parse(schemaName) ==
  /\ schema' = schemaName
  /\ nodes' = parseSchema(files[schemaName], schemaName)
  /\ op' = [called |-> {"parseSchema"}]
  /\ UNCHANGED <<files, displayedNodes, displayedLinks, selectedNode, selectedLink,
                 showLabels, density, stateCurrentSchemaName, currentSchemaName,
                 depthSlider, url, sidebar, rendered, inflight, timers,
                 searchResults, stack, events>>

NextParse == \E schemaName \in SCHEMAS : Parse(schemaName)

SpecParse == InitParse /\ [][NextParse]_vars

-----------------------------------------------------------------------------
(* expandNode, one call frame and one loop iteration at a time *)

ExpandRootProperties ==
  { <<>>,
    <<Prop(P, Ref(A), Null, <<>>, <<>>)>>,
    <<Prop(P, Null, Null, <<Ref(A), Ref(A) \o <<"/","i","d">> >>, <<>>)>>,
    <<Prop(P, Ref(A), Null, <<>>, <<>>), Prop(Q, Null, Ref(B), <<>>, <<>>)>>,
    <<Prop(P, Ref(A), Null, <<>>, <<>>), Prop(Q, Null, Ref(A), <<>>, <<>>)>>,
    <<Prop(P, Null, Null, <<Ref(A), Ref(A) \o <<"/","i","d">> >>, <<>>),
      Prop(Q, Null, Ref(B), <<>>, <<>>)>>,
    <<Prop(P, Ref(Document), Null, <<>>, <<>>), Prop(Q, Ref(A), Null, <<>>, <<>>)>> }

ExpandDefProperties ==
  { <<>>,
    <<Prop(P, Ref(A), Null, <<>>, <<>>)>>,
    <<Prop(P, Ref(B), Null, <<>>, <<>>)>>,
    <<Prop(P, Null, Null, <<Ref(Document)>>, <<>>)>> }

(* the root refers to A and to B, A refers to B, and B refers to Cf *)
DiamondDoc ==
  MakeDoc(<<Prop(P, Ref(A), Null, <<>>, <<>>), Prop(Q, Ref(B), Null, <<>>, <<>>)>>,
          <<[key |-> A, properties |-> <<Prop(P, Ref(B), Null, <<>>, <<>>)>>],
            [key |-> B, properties |-> <<Prop(P, Ref(Cf), Null, <<>>, <<>>)>>],
            [key |-> Cf, properties |-> <<>>]>>)

ExpandDocs ==
  { MakeDoc(properties, definitions) :
      properties \in ExpandRootProperties,
      definitions \in DefinitionLists({A, B}, ExpandDefProperties) }
  \cup {DiamondDoc}

Frame(nodeId, depth, pc, i) == [nodeId |-> nodeId, depth |-> depth, pc |-> pc, i |-> i]

InitExpand ==
  \E doc \in ExpandDocs, nodeId \in {Document, A, B, Zz}, depth \in 0..MaxDepth :
    /\ files = [name \in SCHEMAS |-> doc]
    /\ schema = Document
    /\ nodes = parseSchema(doc, Document)
    /\ Idle(Blank)
    /\ stack = <<Frame(nodeId, depth, "call", 0)>>
    /\ events = 0
    /\ op = [called |-> {"expandNode"}, nodeId |-> nodeId, depth |-> depth]

Top == stack[Len(stack)]
Pop == SubSeq(stack, 1, Len(stack) - 1)

ExpandUnchanged ==
  UNCHANGED <<files, schema, nodes, selectedNode, selectedLink, showLabels, density,
              stateCurrentSchemaName, currentSchemaName, depthSlider, url, sidebar,
              rendered, inflight, timers, searchResults, events, op>>

(* entry of expandNode(nodeId, depth) up to the loop *)
ExpandCall ==
  /\ stack # <<>> /\ Top.pc = "call"
  /\ IF ~MapHas(nodes, Top.nodeId)
     THEN /\ stack' = Pop
          /\ UNCHANGED displayedNodes
     ELSE /\ displayedNodes' = displayedNodes \cup {Top.nodeId}
          /\ stack' = IF Top.depth <= 0 THEN Pop
                      ELSE Append(Pop, Frame(Top.nodeId, Top.depth, "loop", 1))
  /\ UNCHANGED displayedLinks
  /\ ExpandUnchanged

(* ExpandRelation recursing into a target that is already displayed *)
ExpandRelationRevisits ==
  /\ stack # <<>> /\ Top.pc = "loop"
  /\ Top.i <= Len(MapGet(nodes, Top.nodeId).relations)
  /\ LET relation == MapGet(nodes, Top.nodeId).relations[Top.i]
         next == Append(Pop, Frame(Top.nodeId, Top.depth, "loop", Top.i + 1))
     IN IF MapHas(nodes, relation.target)
        THEN /\ displayedLinks' =
                  IF HasLinkTriple(displayedLinks, Top.nodeId, relation.target,
                                   relation.property)
                  THEN displayedLinks
                  ELSE Append(displayedLinks,
                              MakeLink(LinkId(Top.nodeId, relation.target,
                                              relation.property),
                                       Top.nodeId, relation.target, relation))
             /\ stack' = Append(next, Frame(relation.target, Top.depth - 1,
                                            "call", 0))
        ELSE /\ UNCHANGED displayedLinks
             /\ stack' = next
  /\ UNCHANGED displayedNodes
  /\ ExpandUnchanged

(* ExpandRelation pushing the edge without looking for an existing one *)
ExpandRelationNoDedup ==
  /\ stack # <<>> /\ Top.pc = "loop"
  /\ Top.i <= Len(MapGet(nodes, Top.nodeId).relations)
  /\ LET relation == MapGet(nodes, Top.nodeId).relations[Top.i]
         next == Append(Pop, Frame(Top.nodeId, Top.depth, "loop", Top.i + 1))
     IN IF MapHas(nodes, relation.target)
        THEN /\ displayedLinks' =
                  Append(displayedLinks,
                         MakeLink(LinkId(Top.nodeId, relation.target,
                                         relation.property),
                                  Top.nodeId, relation.target, relation))
             /\ stack' = IF relation.target \notin displayedNodes
                         THEN Append(next, Frame(relation.target, Top.depth - 1,
                                                 "call", 0))
                         ELSE next
        ELSE /\ UNCHANGED displayedLinks
             /\ stack' = next
  /\ UNCHANGED displayedNodes
  /\ ExpandUnchanged

(* one iteration of the loop over node.relations *)
ExpandRelation ==
  /\ stack # <<>> /\ Top.pc = "loop"
  /\ Top.i <= Len(MapGet(nodes, Top.nodeId).relations)
  /\ LET relation == MapGet(nodes, Top.nodeId).relations[Top.i]
         next == Append(Pop, Frame(Top.nodeId, Top.depth, "loop", Top.i + 1))
     IN IF MapHas(nodes, relation.target)
        THEN /\ displayedLinks' =
                  IF HasLinkTriple(displayedLinks, Top.nodeId, relation.target,
                                   relation.property)
                  THEN displayedLinks
                  ELSE Append(displayedLinks,
                              MakeLink(LinkId(Top.nodeId, relation.target,
                                              relation.property),
                                       Top.nodeId, relation.target, relation))
             /\ stack' = IF relation.target \notin displayedNodes
                         THEN Append(next, Frame(relation.target, Top.depth - 1,
                                                 "call", 0))
                         ELSE next
        ELSE /\ UNCHANGED displayedLinks
             /\ stack' = next
  /\ UNCHANGED displayedNodes
  /\ ExpandUnchanged

(* the loop is exhausted: expandNode returns *)
ExpandReturn ==
  /\ stack # <<>> /\ Top.pc = "loop"
  /\ Top.i > Len(MapGet(nodes, Top.nodeId).relations)
  /\ stack' = Pop
  /\ UNCHANGED <<displayedNodes, displayedLinks>>
  /\ ExpandUnchanged

NextExpand == ExpandCall \/ ExpandRelation \/ ExpandReturn

SpecExpand == InitExpand /\ [][NextExpand]_vars /\ WF_vars(NextExpand)

-----------------------------------------------------------------------------
(* Properties of the running page (Spec) *)

SelectionCalls == {"selectNode", "selectLink"}

(* C1: in every reachable state at most one of state.selectedNode and      *)
(* state.selectedLink is non-null.                                         *)
C1_SelectionExclusive == ~(selectedNode # Null /\ selectedLink # Null)

(* C1 witness: selectLink has selected a displayed link and shows it in    *)
(* the sidebar; no node is selected.                                       *)
C1_Witness ==
  /\ selectedLink # Null /\ selectedNode = Null
  /\ "selectLink" \in op.called
  /\ sidebar.kind = "link" /\ HasLinkId(displayedLinks, selectedLink)

(* C2: no two entries of state.displayedLinks share the same id            *)
(* source-target-property.                                                 *)
C2_UniqueLinkIds ==
  \A i, j \in 1..Len(displayedLinks) :
    displayedLinks[i].id = displayedLinks[j].id => i = j

(* the state of the page after a reload at the current URL, its schema loaded *)
Reloaded ==
  LET r == PageLoad(url)
  IN loadSchemaApply([r EXCEPT !.inflight = <<>>], r.currentSchemaName,
                     files[r.currentSchemaName])

(* the schema of the page is loaded and nothing is pending *)
Settled == inflight = <<>> /\ timers = <<>> /\ schema = currentSchemaName

(* C5: the URL the handlers have written, re-read on a page reload,        *)
(* reproduces selectedNode, selectedLink, depth, density and labels as     *)
(* they were before the reload.                                            *)
C5_UrlRoundTrip ==
  (Settled /\ "updateURL" \in op.called) =>
    /\ Reloaded.selectedNode = selectedNode
    /\ Reloaded.selectedLink = selectedLink
    /\ Reloaded.depthSlider = depthSlider
    /\ Reloaded.density = density
    /\ Reloaded.showLabels = showLabels

(* C6: after every handler the URL carries the current selection: node is  *)
(* present exactly when selectedNode is non-null and equals it, link       *)
(* likewise, and never both.                                               *)
C6_UrlCarriesSelection ==
  (inflight = <<>> /\ schema = currentSchemaName) =>
    /\ url["node"] = selectedNode
    /\ url["link"] = selectedLink
    /\ ~(url["node"] # Null /\ url["link"] # Null)

SelectionChanges == selectedNode' # selectedNode \/ selectedLink' # selectedLink
SelectionSet ==
  \/ selectedNode' # selectedNode /\ selectedNode' # Null
  \/ selectedLink' # selectedLink /\ selectedLink' # Null

(* C7 as stated: every transition of the running page in which            *)
(* selectedNode or selectedLink changes value is a call of selectNode or   *)
(* selectLink.                                                             *)
C7_OnlySelectChanges ==
  [][(SelectionChanges /\ "init" \notin op'.called)
       => op'.called \cap SelectionCalls # {}]_vars

(* C7 amended: every transition in which selectedNode or selectedLink      *)
(* takes a new non-null value is a call of selectNode or selectLink; the   *)
(* other handlers only ever set them to null.                              *)
C7_OnlySelectSets ==
  [][SelectionSet => op'.called \cap SelectionCalls # {}]_vars

(* C7 witness: a handler that called selectNode has left a node of the map *)
(* selected and shown in the sidebar.                                      *)
C7_Witness ==
  /\ selectedNode # Null /\ MapHas(nodes, selectedNode)
  /\ "selectNode" \in op.called /\ "init" \notin op.called
  /\ sidebar.kind = "node" /\ sidebar.id = selectedNode

(* C8: selectLink(id) with an id that no link of state.displayedLinks has  *)
(* leaves selectedNode, selectedLink, the URL and the sidebar as they were.*)
C8_AbsentLinkNoEffect ==
  [][("linkNotFound" \in op'.called /\ "init" \notin op'.called)
       => UNCHANGED <<selectedNode, selectedLink, url, sidebar>>]_vars

-----------------------------------------------------------------------------
(* Properties of expandNode (SpecExpand) *)

Done == stack = <<>>

LinksOf(source, target, property) ==
  {i \in 1..Len(displayedLinks) : /\ displayedLinks[i].source = source
                                  /\ displayedLinks[i].target = target
                                  /\ displayedLinks[i].property = property}

SelfProperties(node) ==
  {node.relations[k].property : k \in {k \in 1..Len(node.relations) :
                                         node.relations[k].target = node.id}}

(* the nodes whose loop over relations has run to its end *)
Expanded(node) ==
  \/ node.id = op.nodeId /\ op.depth >= 1
  \/ \E i \in 1..Len(displayedLinks) : displayedLinks[i].source = node.id

SmallerOf(a, b) == IF a < b THEN a ELSE b

(* C3: expandNode(id, depth) terminates for every finite node map and      *)
(* every depth, cycles and self-references included: the call stack never  *)
(* grows beyond the number of nodes (nor beyond depth) plus one and        *)
(* eventually empties; a node that is the target of its own relation has   *)
(* then exactly one edge whose source and target are both that node.       *)
C3_ExpandTerminates ==
  /\ [](Len(stack) <= SmallerOf(Len(nodes), op.depth) + 1)
  /\ <>Done
  /\ [](Done => \A i \in 1..Len(nodes) :
                  Expanded(nodes[i]) =>
                    \A property \in SelfProperties(nodes[i]) :
                      Cardinality(LinksOf(nodes[i].id, nodes[i].id, property)) = 1)

(* C3 witness: a run from the root at full depth has ended on a map that   *)
(* holds a self-reference and a cycle between two nodes, both displayed.   *)
C3_Witness ==
  /\ Done /\ op.depth = MaxDepth
  /\ \E i \in 1..Len(displayedLinks) :
       displayedLinks[i].source = displayedLinks[i].target
  /\ \E i, j \in 1..Len(displayedLinks) :
       /\ displayedLinks[i].source # displayedLinks[i].target
       /\ displayedLinks[i].source = displayedLinks[j].target
       /\ displayedLinks[i].target = displayedLinks[j].source

TargetProperties(node) ==
  {<<node.relations[k].target, node.relations[k].property>> :
     k \in 1..Len(node.relations)}

(* C4: from an empty display, expandNode(root, 0) shows exactly the root   *)
(* and no edge; expandNode(root, 1) shows the root and every relation      *)
(* target, with exactly one edge per distinct (target, property).          *)
C4_ExpandFromEmpty ==
  (Done /\ MapHas(nodes, op.nodeId)) =>
    LET root == MapGet(nodes, op.nodeId)
    IN /\ op.depth = 0 => displayedNodes = {root.id} /\ displayedLinks = <<>>
       /\ op.depth = 1 =>
            /\ displayedNodes = {root.id} \cup {tp[1] : tp \in TargetProperties(root)}
            /\ \A tp \in TargetProperties(root) :
                 Cardinality(LinksOf(root.id, tp[1], tp[2])) = 1
            /\ Len(displayedLinks) = Cardinality(TargetProperties(root))

(* C4 witness: expandNode(root, 1) has ended on a root with two targets,   *)
(* one of them reached by two relations of the same property.              *)
C4_Witness ==
  /\ Done /\ op.depth = 1 /\ MapHas(nodes, op.nodeId)
  /\ Cardinality(displayedNodes) = 3
  /\ Len(MapGet(nodes, op.nodeId).relations) = 3
  /\ Len(displayedLinks) = 2

-----------------------------------------------------------------------------
(* Properties of parseSchema (SpecParse) *)

Parsed == nodes # <<>>

(* the definition a JSON pointer "#/definitions/<name>[/...]" names *)
NamedDefinition(ref) ==
  LET n == Len(DefsPrefix)
      starts == {i \in 1..(Len(ref) - n + 1) : SubSeq(ref, i, i + n - 1) = DefsPrefix}
      from == Min(starts) + n
      stops == {j \in from..Len(ref) : ref[j] = "/"}
  IN IF starts = {} THEN Null
     ELSE SubSeq(ref, from, IF stops = {} THEN Len(ref) ELSE Min(stops) - 1)

(* the properties object a node of the map was built from *)
OwnProperties(node) ==
  IF node.id \in DefinitionKeys(files[schema])
  THEN Definition(files[schema], node.id).properties
  ELSE files[schema].properties

(* the relations of a node that a reference of one of its properties produced *)
ProducedBy(node, p, kind, ref) ==
  {i \in 1..Len(node.relations) :
     /\ node.relations[i].property = p.name
     /\ CASE kind = "ref" -> node.relations[i].type = "composition"
                             /\ ~node.relations[i].isArray
          [] kind = "itemsRef" -> node.relations[i].type = "composition"
                                  /\ node.relations[i].isArray
          [] kind = "assoc" -> node.relations[i].type = "association"
                               /\ ~node.relations[i].isArray
                               /\ node.relations[i].via = ref
          [] OTHER -> node.relations[i].type = "association"
                      /\ node.relations[i].isArray
                      /\ node.relations[i].via = ref}

References(p) ==
  (IF p.ref # Null THEN {<<"ref", p.ref>>} ELSE {})
  \cup (IF p.itemsRef # Null THEN {<<"itemsRef", p.itemsRef>>} ELSE {})
  \cup {<<"assoc", p.assoc[i]>> : i \in 1..Len(p.assoc)}
  \cup {<<"itemsAssoc", p.itemsAssoc[i]>> : i \in 1..Len(p.itemsAssoc)}

(* C9: every relation target in the parsed map is a key of the map, and a  *)
(* $ref or x-association-target that names a definition which does not     *)
(* exist produces no relation.                                             *)
C9_DanglingReferenceDropped ==
  Parsed =>
    /\ \A i \in 1..Len(nodes) : \A k \in 1..Len(nodes[i].relations) :
         MapHas(nodes, nodes[i].relations[k].target)
    /\ \A i \in 1..Len(nodes) :
         \A j \in 1..Len(OwnProperties(nodes[i])) :
           \A kr \in References(OwnProperties(nodes[i])[j]) :
             NamedDefinition(kr[2]) \notin MapKeys(nodes)
               => ProducedBy(nodes[i], OwnProperties(nodes[i])[j], kr[1], kr[2]) = {}

(* C10: the parsed map holds the root node plus one node per key of        *)
(* definitions (1 + |definitions| nodes), each under its own id and with   *)
(* the relations of its own properties, also when a definition key equals  *)
(* the schema name.                                                        *)
C10_RootPlusOnePerDefinition ==
  Parsed =>
    /\ Len(nodes) = 1 + Len(files[schema].definitions)
    /\ \E i \in 1..Len(nodes) : nodes[i].id = schema /\ nodes[i].type = "root"
    /\ \A key \in DefinitionKeys(files[schema]) : MapHas(nodes, key)
    /\ \A i, j \in 1..Len(nodes) : nodes[i].id = nodes[j].id => i = j
    /\ \A i \in 1..Len(nodes) :
         nodes[i].relations =
           extractRelations(IF nodes[i].type = "root" THEN files[schema].properties
                            ELSE Definition(files[schema], nodes[i].id).properties,
                            MapKeys(nodes))

-----------------------------------------------------------------------------
(* Properties of schema loading (Spec) *)

(* the state loadSchema leaves when the fetch of inflight[i] has failed *)
AfterFailure(i) ==
  loadSchemaFailed([Cur EXCEPT !.inflight = SubSeq(inflight, 1, i - 1)
                                            \o SubSeq(inflight, i + 1, Len(inflight))])

(* C11: when the fetch of a schema fails, loadSchema issues no further     *)
(* fetch, renders the error panel, throws nothing to its caller and leaves *)
(* state.nodes, state.schema, displayedNodes, displayedLinks and the        *)
(* selection as they were.                                                 *)
C11_FetchFailureContained ==
  [][\A i \in 1..Len(inflight) :
       FetchResolve(i, FALSE) =>
         /\ ~AfterFailure(i).threw
         /\ sidebar'.kind = "error"
         /\ Len(inflight') = Len(inflight) - 1
         /\ UNCHANGED <<nodes, schema, displayedNodes, displayedLinks,
                        selectedNode, selectedLink>>]_vars

(* C11 witness: the fetch of a schema switch has failed; the error panel   *)
(* is rendered while the nodes of the schema loaded before are kept.       *)
C11_Witness ==
  /\ sidebar.kind = "error" /\ inflight = <<>>
  /\ nodes # <<>> /\ displayedNodes # {}
  /\ schema # Null /\ schema # currentSchemaName

-----------------------------------------------------------------------------
(* Page load with missing, valid and invalid URL parameters (SpecLoad) *)

Unknown == <<"z","z">>
NotANumber == <<"x">>

LoadURLs ==
  { [NoParams EXCEPT !["schema"] = s, !["depth"] = d, !["density"] = y,
                     !["labels"] = l] :
      s \in {Null, Unknown}, d \in {Null, NotANumber, <<"2">>},
      y \in {Null, Unknown, Compact}, l \in {Null, Unknown, False} }

InitLoad == \E u \in LoadURLs : InitAt(u)

SpecLoad == InitLoad /\ [][NextSettings]_vars

IsInteger(s) == s # <<>> /\ \A i \in 1..Len(s) : \E d \in 1..10 : Digits[d] = s[i]

(* C12: on a page load, a missing or invalid schema, depth, density or     *)
(* labels parameter gives the documented default: schema Document,         *)
(* depth 1, density normal, labels true; state.density is a preset name.   *)
C12_DefaultsForInvalidParams ==
  "init" \in op.called =>
    /\ url["schema"] \notin SCHEMAS => currentSchemaName = Document
    /\ ~IsInteger(url["depth"]) => depthSlider = DefaultDepth
    /\ url["density"] \notin DENSITY_CONFIGS => density = Normal
    /\ url["labels"] \notin {True, False} => showLabels = TRUE
    /\ density \in DENSITY_CONFIGS

-----------------------------------------------------------------------------
(* Properties of the reset button (Spec) *)

(* the relations of the root node of the current schema *)
RootRelations ==
  IF MapHas(nodes, stateCurrentSchemaName)
  THEN MapGet(nodes, stateCurrentSchemaName).relations ELSE <<>>

RootTriples ==
  {<<stateCurrentSchemaName, RootRelations[i].target, RootRelations[i].property>> :
     i \in 1..Len(RootRelations)}

TriplesOf(links) ==
  {<<links[i].source, links[i].target, links[i].property>> : i \in 1..Len(links)}

(* C13: after the reset handler the display is the root of the current     *)
(* schema with the targets of its relations and one edge per (target,      *)
(* property) pair of the root, whatever was displayed, selected or named   *)
(* in the URL before; selectedNode and selectedLink are null.              *)
C13_ResetRebuildsFromRoot ==
  [][Reset =>
       /\ selectedNode' = Null /\ selectedLink' = Null
       /\ displayedNodes' =
            IF MapHas(nodes, stateCurrentSchemaName)
            THEN {stateCurrentSchemaName}
                 \cup {RootRelations[i].target : i \in 1..Len(RootRelations)}
            ELSE {}
       /\ TriplesOf(displayedLinks') = RootTriples
       /\ Len(displayedLinks') = Cardinality(RootTriples)]_vars

(* C13 witness: the reset handler has run on a loaded schema while the URL *)
(* names a node: the display is the root with its neighbour, nothing is    *)
(* selected and the open sidebar shows the empty state.                    *)
C13_Witness ==
  /\ sidebar.kind = "empty" /\ ~sidebar.collapsed
  /\ url["node"] # Null /\ url["node"] # stateCurrentSchemaName
  /\ selectedNode = Null /\ selectedLink = Null
  /\ MapHas(nodes, stateCurrentSchemaName)
  /\ displayedNodes = {stateCurrentSchemaName, Ab}
  /\ Len(displayedLinks) = 1

-----------------------------------------------------------------------------
(* The search box over generated schema documents (SpecSearch):            *)
(* op.value is the text of the input, op.display the display style of the  *)
(* results panel, searchResults the list rendered into the panel.          *)

Abc == <<"A","b","c">>
Abd == <<"A","b","d">>
Cab == <<"C","a","b">>
Tab == <<"T","a","b">>

Plain(name) == Prop(name, Null, Null, <<>>, <<>>)

SearchRootProperties ==
  { <<Prop(<<"a","b">>, Null, Ref(Abc), <<>>, <<>>)>>,
    <<Plain(<<"c","a","b">>), Plain(<<"a","b","c">>)>> }

SearchDefProperties ==
  { <<Prop(<<"a","b">>, Ref(Abc), Null, <<>>, <<>>)>>,
    <<Plain(<<"x",".","a","b">>), Plain(<<"a","b","x">>)>>,
    <<Plain(<<"a","b","y">>), Prop(<<"a","b","x">>, Ref(Cab), Null, <<>>, <<>>)>> }

(* a definition with more matching properties than the result cap *)
ManyProperties ==
  [i \in 1..(2 * Len(LowerCase)) |->
     IF i <= Len(LowerCase) THEN Plain(<<"a","b",LowerCase[i]>>)
     ELSE Plain(<<"a","b",LowerCase[i - Len(LowerCase)],"z">>)]

LargeDoc ==
  MakeDoc(<<Prop(<<"a","b","s">>, Ref(Ab), Null, <<>>, <<>>)>>,
          <<[key |-> Ab, properties |-> ManyProperties]>>)

(* a definition whose key holds HTML markup characters *)
Markup == <<"<","a","b",">","&">>

MarkupDoc ==
  MakeDoc(<<Plain(<<"a","b","<">>)>>,
          <<[key |-> Markup, properties |-> <<Plain(<<"<","a","b",">">>)>>]>>)

SearchDocs ==
  { [MakeDoc(properties, definitions) EXCEPT !.title = title] :
      title \in {Null, Tab},
      properties \in SearchRootProperties,
      definitions \in DefinitionLists({Abc, Abd, Cab}, SearchDefProperties) }
  \cup {LargeDoc, MarkupDoc}

RawQueries ==
  { <<"a","b">>, <<" ","A","b"," ">>, <<"b"," ">>, <<"a","b","x">> }

SearchBox(value, display, html) ==
  [called |-> {}, value |-> value, display |-> display, html |-> html]

SearchUnchanged ==
  UNCHANGED <<files, schema, nodes, displayedNodes, displayedLinks, selectedNode,
              selectedLink, showLabels, density, stateCurrentSchemaName,
              currentSchemaName, depthSlider, url, sidebar, rendered, inflight,
              timers, stack, events>>

InitSearch ==
  \E doc \in SearchDocs :
    /\ files = [name \in SCHEMAS |-> doc]
    /\ schema = Document
    /\ nodes = parseSchema(doc, Document)
    /\ Idle(Blank)
    /\ stack = <<>>
    /\ events = 0
    /\ op = SearchBox(<<>>, "none", <<>>)

(* searchInput 'input' listener *)
SearchType(raw) ==
  LET query == toLowerCase(Trim(raw))
  IN /\ raw # op.value
     /\ IF Len(query) < MinQuery
        THEN /\ searchResults' = searchResults
             /\ op' = SearchBox(raw, "none", op.html)
        ELSE /\ searchResults' = performSearch(nodes, query)
             /\ op' = [SearchBox(raw, "block",
                                 renderResults(performSearch(nodes, query), Trim(raw)))
                         EXCEPT !.called = {"performSearch", "renderResults"}]
     /\ SearchUnchanged

(* a focus listener that shows the panel whatever the query is *)
SearchFocusAlwaysShows ==
  /\ op' = SearchBox(op.value, "block", op.html)
  /\ UNCHANGED searchResults
  /\ SearchUnchanged

(* searchInput 'focus' listener *)
SearchFocus ==
  /\ op' = SearchBox(op.value,
                     IF Len(toLowerCase(Trim(op.value))) >= MinQuery THEN "block"
                     ELSE op.display, op.html)
  /\ UNCHANGED searchResults
  /\ SearchUnchanged

(* clearSearch 'click' listener *)
ClearSearch ==
  /\ op.value # <<>>
  /\ op' = SearchBox(<<>>, "none", op.html)
  /\ UNCHANGED searchResults
  /\ SearchUnchanged

(* Escape in the input, or a click outside the search box *)
SearchDismiss ==
  /\ op.display = "block"
  /\ op' = SearchBox(op.value, "none", op.html)
  /\ UNCHANGED searchResults
  /\ SearchUnchanged

NextSearch ==
  \/ \E raw \in RawQueries : SearchType(raw)
  \/ SearchFocus
  \/ ClearSearch
  \/ SearchDismiss

SpecSearch == InitSearch /\ [][NextSearch]_vars

-----------------------------------------------------------------------------
(* Properties of search (SpecSearch) *)

Searched == "performSearch" \in op.called
Query == toLowerCase(Trim(op.value))

Item(type, id, name, nodeId) ==
  [type |-> type, id |-> id, name |-> name, nodeId |-> nodeId]

ItemOf(r) == Item(r.type, r.id, r.name, r.nodeId)

(* the matches of a query: entities by id or name, properties by name *)
Matches(q) ==
  { Item("entity", nodes[i].id, nodes[i].name, Null) :
      i \in {i \in 1..Len(nodes) : \/ Includes(toLowerCase(nodes[i].name), q)
                                   \/ Includes(toLowerCase(nodes[i].id), q)} }
  \cup UNION {
    { Item(IF \E r \in 1..Len(nodes[i].relations) :
                 nodes[i].relations[r].property = nodes[i].properties[k]
            THEN "relation" ELSE "property",
           nodes[i].id \o <<"-">> \o nodes[i].properties[k],
           nodes[i].name \o <<".">> \o nodes[i].properties[k],
           nodes[i].id) :
        k \in {k \in 1..Len(nodes[i].properties) :
                 Includes(toLowerCase(nodes[i].properties[k]), q)} } :
    i \in 1..Len(nodes) }

Weight(x) == IF x.type = "entity" THEN 1 ELSE IF x.type = "relation" THEN 2 ELSE 3

AfterLastDot(s) ==
  LET dots == {i \in 1..Len(s) : s[i] = "."}
  IN IF dots = {} THEN s
     ELSE SubSeq(s, (CHOOSE i \in dots : \A j \in dots : j <= i) + 1, Len(s))

MatchPart(x) ==
  IF x.type = "entity" THEN toLowerCase(x.name) ELSE AfterLastDot(toLowerCase(x.name))

IsPrefixMatch(x, q) ==
  Len(MatchPart(x)) >= Len(q) /\ SubSeq(MatchPart(x), 1, Len(q)) = q

LexLess(a, b) ==
  \E k \in 1..(Len(b)) :
    /\ k - 1 <= Len(a)
    /\ SubSeq(a, 1, k - 1) = SubSeq(b, 1, k - 1)
    /\ \/ k > Len(a)
       \/ CharRank(a[k]) < CharRank(b[k])

(* x ranks strictly before y *)
Before(x, y, q) ==
  \/ Weight(x) < Weight(y)
  \/ /\ Weight(x) = Weight(y)
     /\ \/ IsPrefixMatch(x, q) /\ ~IsPrefixMatch(y, q)
        \/ /\ IsPrefixMatch(x, q) = IsPrefixMatch(y, q)
           /\ \/ Len(x.name) < Len(y.name)
              \/ /\ Len(x.name) = Len(y.name)
                 /\ LexLess(toLowerCase(x.name), toLowerCase(y.name))

Shown == {ItemOf(searchResults[i]) : i \in 1..Len(searchResults)}

(* C14: performSearch returns the first 50 (or all) of the matches of the  *)
(* query, ordered by type weight, then prefix matches first, then shorter  *)
(* name, then lexicographic order.                                         *)
C14_SearchRanking ==
  Searched =>
    /\ Shown \subseteq Matches(Query)
    /\ Cardinality(Shown) = Len(searchResults)
    /\ Len(searchResults) = IF Cardinality(Matches(Query)) < SearchCap
                            THEN Cardinality(Matches(Query)) ELSE SearchCap
    /\ \A i, j \in 1..Len(searchResults) :
         i < j => ~Before(ItemOf(searchResults[j]), ItemOf(searchResults[i]), Query)
    /\ \A x \in Matches(Query) \ Shown : \A y \in Shown : ~Before(x, y, Query)

(* C14 witness: a search with more matches than the cap has returned 50    *)
(* results: an entity first, then a relation, then properties with the     *)
(* shorter names first.                                                    *)
C14_Witness ==
  /\ Searched
  /\ Cardinality(Matches(Query)) > SearchCap
  /\ Len(searchResults) = SearchCap
  /\ searchResults[1].type = "entity"
  /\ searchResults[2].type = "relation"
  /\ searchResults[3].type = "property"
  /\ Len(searchResults[3].name) < Len(searchResults[SearchCap].name)

(* C15: an input event whose trimmed query has fewer than 2 characters     *)
(* runs no search, renders no results and hides the results panel; the     *)
(* panel is only ever shown while the query has at least 2 characters.     *)
C15_ShortQueryHidesPanel ==
  /\ [][\A raw \in RawQueries :
          (Len(Trim(raw)) < MinQuery /\ SearchType(raw)) =>
            /\ op'.called = {}
            /\ searchResults' = searchResults
            /\ op'.display = "none"]_vars
  /\ [](op.display = "block" => Len(Query) >= MinQuery)

(* C15 witness: after a search has rendered results, a query of one        *)
(* character has been typed and the panel is hidden.                       *)
C15_Witness ==
  /\ Len(Trim(op.value)) = 1
  /\ op.display = "none"
  /\ op.called = {}
  /\ searchResults # <<>>

(* C16: every string of the schema that renderResults puts into the HTML   *)
(* of the search results list has passed through escapeHtml before it is   *)
(* interpolated.                                                           *)
C16_SinksEscaped ==
  "renderResults" \in op.called =>
    \A i \in 1..Len(op.html) :
      op.html[i].text =
        IF op.html[i].source = "result-name"
        THEN highlightMatch(escapeHtml(op.html[i].raw), Trim(op.value))
        ELSE escapeHtml(op.html[i].raw)

-----------------------------------------------------------------------------
(* Schema switches while a fetch is outstanding (SpecRace) *)

NextRace ==
  \/ \E i \in 1..MaxRacing, ok \in BOOLEAN : FetchResolve(i, ok)
  \/ \E name \in SCHEMAS : SchemaChangeUpTo(name, MaxRacing)

SpecRace == Init /\ [][NextRace]_vars

(* C17: loadSchema has no guard against reordered responses.  Every successful
   response is stored and parsed, whatever currentSchemaName says by then, and
   currentSchemaName is left as the newest request set it; so the response of
   an older request that arrives last leaves state.nodes parsed from the older
   schema while currentSchemaName names the newer one. *)
C17_StaleResponseApplied ==
  [][\A i \in 1..MaxRacing :
       FetchResolve(i, TRUE) =>
         /\ schema' = inflight[i]
         /\ nodes' = parseSchema(files[inflight[i]], inflight[i])
         /\ currentSchemaName' = currentSchemaName]_vars

(* C17 witness: both loads have answered, the older one last and successfully:
   the nodes are those of a schema other than currentSchemaName *)
C17_Witness ==
  /\ inflight = <<>>
  /\ schema # Null
  /\ schema # currentSchemaName
  /\ sidebar.kind # "error"
  /\ nodes = parseSchema(files[schema], schema)
  /\ nodes # parseSchema(files[currentSchemaName], currentSchemaName)

-----------------------------------------------------------------------------
(* Properties of clicks on the canvas (Spec) *)

(* the nodes one hop from d: targets of its relations that the schema defines,
   and the sources of the relations of other nodes that target d *)
OneHopNodes(d) ==
  {nodes[i].relations[j].target :
     <<i, j>> \in {ij \in (1..Len(nodes)) \X (1..MaxDefs + 1) :
                     /\ ij[2] <= Len(nodes[ij[1]].relations)
                     /\ nodes[ij[1]].id = d
                     /\ MapHas(nodes, nodes[ij[1]].relations[ij[2]].target)}}
  \cup
  {nodes[i].id : i \in {k \in 1..Len(nodes) :
                           /\ nodes[k].id # d
                           /\ \E j \in 1..Len(nodes[k].relations) :
                                 nodes[k].relations[j].target = d}}

(* the ids of the edges between d and the nodes one hop from it *)
OneHopLinkIds(d) ==
  UNION {{LinkId(nodes[i].id, nodes[i].relations[j].target,
                 nodes[i].relations[j].property) :
            j \in {k \in 1..Len(nodes[i].relations) :
                     \/ /\ nodes[i].id = d
                        /\ MapHas(nodes, nodes[i].relations[k].target)
                     \/ /\ nodes[i].id # d
                        /\ nodes[i].relations[k].target = d}} :
         i \in 1..Len(nodes)}

(* C18: a click on a node that is not selected selects it and changes neither
   displayedNodes nor displayedLinks; a click on the selected node adds the
   nodes and edges one hop from it and leaves selectedNode and selectedLink as
   they are; a click on the empty canvas sets both to null and changes neither
   displayed set. *)
C18_ClickSelectsThenExpands ==
  [][/\ \A d \in rendered.nodes :
          (selectedNode # d /\ NodeClick(d)) =>
            /\ selectedNode' = d
            /\ selectedLink' = Null
            /\ UNCHANGED <<displayedNodes, displayedLinks>>
     /\ \A d \in rendered.nodes :
          (selectedNode = d /\ NodeClick(d)) =>
            /\ UNCHANGED <<selectedNode, selectedLink>>
            /\ displayedNodes' = displayedNodes \cup OneHopNodes(d)
            /\ LinkIds(displayedLinks') = LinkIds(displayedLinks) \cup OneHopLinkIds(d)
            /\ SubSeq(displayedLinks', 1, Len(displayedLinks)) = displayedLinks
     /\ BackgroundClick =>
          /\ selectedNode' = Null
          /\ selectedLink' = Null
          /\ UNCHANGED <<displayedNodes, displayedLinks>>]_vars

(* C18 witness: a node is selected and shown with everything one hop from it,
   reverse neighbours included, after a handler that neither selected anything
   nor wrote the URL *)
C18_Witness ==
  /\ selectedNode # Null
  /\ selectedLink = Null
  /\ op.called = {}
  /\ OneHopNodes(selectedNode) \subseteq displayedNodes
  /\ OneHopLinkIds(selectedNode) \subseteq LinkIds(displayedLinks)
  /\ Cardinality(OneHopNodes(selectedNode)) >= 3
  /\ Cardinality(OneHopLinkIds(selectedNode)) >= 2
  /\ rendered.nodes = displayedNodes

-----------------------------------------------------------------------------
(* Properties of rendering (Spec) *)

(* C19: whenever a handler has finished, the rendered node set is
   displayedNodes and the rendered link set is displayedLinks. *)
C19_RenderedIsDisplayed ==
  /\ rendered.nodes = displayedNodes
  /\ rendered.links = LinkIds(displayedLinks)

-----------------------------------------------------------------------------
(* Properties of addRelationToGraph (Spec) *)

(* the ids of the edges that relations of already displayed nodes, other than
   the target itself, have to the target *)
BackReferenceIds(target) ==
  UNION {{LinkId(nodes[i].id, target, nodes[i].relations[j].property) :
            j \in {k \in 1..Len(nodes[i].relations) :
                     nodes[i].relations[k].target = target}} :
         i \in {k \in 1..Len(nodes) : /\ nodes[k].id \in displayedNodes
                                       /\ nodes[k].id # target}}

(* what a step leaves behind when it has run addRelationToGraph(sourceId, relation) *)
RelationAdded(sourceId, relation) ==
  LET target == relation.target
      edge == LinkId(sourceId, target, relation.property)
  IN /\ target \in displayedNodes'
     /\ edge \in LinkIds(displayedLinks')
     /\ target \notin displayedNodes =>
          BackReferenceIds(target) \subseteq LinkIds(displayedLinks')
     /\ target \in displayedNodes =>
          LinkIds(displayedLinks') = LinkIds(displayedLinks) \cup {edge}
     /\ rendered'.nodes = displayedNodes'
     /\ rendered'.links = LinkIds(displayedLinks')
     /\ selectedNode' = target
     /\ selectedLink' = Null

(* the sidebar shows a node whose i-th forward relation has no edge yet *)
RelationMissing(i) ==
  /\ i \in 1..Len(sidebar.fwd)
  /\ ~HasLinkTriple(displayedLinks, sidebar.id, sidebar.fwd[i].target,
                    sidebar.fwd[i].property)

(* C20: after addRelationToGraph(sourceId, relation) the target is displayed,
   the edge sourceId-target-property is in displayedLinks, the edges of the
   relations of already displayed nodes that target it are added exactly when
   the target was not displayed before, the graph is re-rendered, and the
   target is the selected node with selectedLink null. *)
C20_AddRelationToGraph ==
  [][\A i \in 1..MaxDefs + 1 :
       (RelationMissing(i) /\ (FwdNameClick(i) \/ FwdTargetClick(i))) =>
         RelationAdded(sidebar.id, sidebar.fwd[i])]_vars

-----------------------------------------------------------------------------
(* Properties of expandAllNeighbors (Spec) *)

(* every target of a relation of d, and every node with a relation to d *)
Neighbours(d) ==
  UNION {{nodes[i].relations[j].target : j \in 1..Len(nodes[i].relations)} :
         i \in {k \in 1..Len(nodes) : nodes[k].id = d}}
  \cup
  {nodes[i].id : i \in {k \in 1..Len(nodes) :
                           \E j \in 1..Len(nodes[k].relations) :
                             nodes[k].relations[j].target = d}}

(* the ids of the edges of those relations *)
NeighbourLinkIds(d) ==
  UNION {{LinkId(nodes[i].id, nodes[i].relations[j].target,
                 nodes[i].relations[j].property) :
            j \in {k \in 1..Len(nodes[i].relations) :
                     nodes[i].id = d \/ nodes[i].relations[k].target = d}} :
         i \in 1..Len(nodes)}

(* C21: after expandAllNeighbors(id) every target of a relation of id and
   every node with a relation that targets id is displayed, each such relation
   has its edge, nothing displayed before has been removed, and updateGraph
   ran exactly once if a node or edge was added and not at all otherwise. *)
C21_ExpandAllNeighbors ==
  [][\A d \in rendered.nodes :
       (selectedNode = d /\ NodeClick(d)) =>
         /\ Neighbours(d) \subseteq displayedNodes'
         /\ NeighbourLinkIds(d) \subseteq LinkIds(displayedLinks')
         /\ displayedNodes \subseteq displayedNodes'
         /\ Len(displayedLinks') >= Len(displayedLinks)
         /\ SubSeq(displayedLinks', 1, Len(displayedLinks)) = displayedLinks
         /\ expandAllNeighbors(Cur, d).renders =
              IF displayedNodes' # displayedNodes \/ displayedLinks' # displayedLinks
              THEN 1 ELSE 0]_vars

(* C21 witness: the selected node is rendered together with all its
   neighbours and the edges of all its relations, at least two of each *)
C21_Witness ==
  /\ selectedNode # Null
  /\ op.called = {}
  /\ Cardinality(Neighbours(selectedNode) \ {selectedNode}) >= 2
  /\ Neighbours(selectedNode) \subseteq rendered.nodes
  /\ NeighbourLinkIds(selectedNode) \subseteq rendered.links
  /\ rendered.nodes = displayedNodes

-----------------------------------------------------------------------------
(* Properties of the displayed sets (Spec) *)

(* C22: in every reachable state displayedNodes is a subset of the keys of
   state.nodes. *)
C22_DisplayedAreParsed ==
  \A id \in displayedNodes : MapHas(nodes, id)

-----------------------------------------------------------------------------
(* Properties of the deferred link selection (Spec) *)

(* the search result a click on the i-th row hands to handleResultSelection *)
ClickedResult(i) ==
  searchResults[Min({j \in 1..Len(searchResults) :
                       searchResults[j].id = searchResults[i].id})]

(* C23: after a click on a search result of type relation the source node and
   the edge of the relation are displayed, and when the deferred callback
   fires, the edge it selects is in displayedLinks and becomes the selection,
   whatever other events were handled between scheduling and firing. *)
C23_DeferredSelectLink ==
  [][/\ \A i \in 1..SearchCap :
          (/\ i <= Len(searchResults)
           /\ searchResults[i].type = "relation"
           /\ ClickedResult(i).relation # <<>>
           /\ ResultClick(i)) =>
            /\ searchResults[i].nodeId \in displayedNodes'
            /\ LinkId(searchResults[i].nodeId, ClickedResult(i).relation[1].target,
                      ClickedResult(i).relation[1].property)
                 \in LinkIds(displayedLinks')
     /\ (timers # <<>> /\ Head(timers).kind = "selectLink" /\ TimerFire) =>
          /\ Head(timers).id \in LinkIds(displayedLinks')
          /\ selectedLink' = Head(timers).id
          /\ selectedNode' = Null]_vars

-----------------------------------------------------------------------------
(* Sidebar tooltips (SpecTooltips) *)

(* the variables of the page that the tooltip, scroll and banner code leave alone *)
PageUntouched ==
  UNCHANGED <<files, schema, nodes, displayedNodes, displayedLinks, selectedNode,
              selectedLink, showLabels, density, stateCurrentSchemaName,
              currentSchemaName, depthSlider, url, sidebar, rendered, inflight,
              timers, searchResults, stack, events>>

(* state.sidebarTooltips, state.headerTooltipsInitialized and the tippy
   instances: sidebar instances are numbered 1..created in creation order,
   rows counts the elements of the sidebar content that carry
   data-tippy-content, liveAtCreate is the set of sidebar instances that were
   alive when the newest batch was created *)
Tooltips(initialized, headerBatches, sidebarTooltips, created, destroyed, rows, liveAtCreate) ==
  [called |-> {}, headerTooltipsInitialized |-> initialized,
   headerBatches |-> headerBatches, sidebarTooltips |-> sidebarTooltips,
   created |-> created, destroyed |-> destroyed, rows |-> rows,
   liveAtCreate |-> liveAtCreate]

InstancesOf(tips) == {tips[i] : i \in 1..Len(tips)}

(* destroySidebarTooltips that drops the handles without destroying them *)
destroySidebarTooltipsForgets(t) ==
  [t EXCEPT !.sidebarTooltips = <<>>]

destroySidebarTooltips(t) ==
  [t EXCEPT !.destroyed = @ \cup InstancesOf(t.sidebarTooltips),
            !.sidebarTooltips = <<>>]

setupTooltips(t) ==
  LET t1 == IF ~t.headerTooltipsInitialized
            THEN [t EXCEPT !.headerBatches = @ + 1,
                           !.headerTooltipsInitialized = TRUE]
            ELSE t
      t2 == destroySidebarTooltips(t1)
  IN [t2 EXCEPT !.liveAtCreate = (1..t2.created) \ t2.destroyed,
                !.sidebarTooltips = [i \in 1..t2.rows |-> t2.created + i],
                !.created = @ + t2.rows,
                !.called = @ \cup {"setupTooltips"}]

InitTooltips ==
  /\ files = Files
  /\ schema = Null
  /\ nodes = <<>>
  /\ Idle(Blank)
  /\ stack = <<>>
  /\ events = 0
  /\ op = Tooltips(FALSE, 0, <<>>, 0, {}, 0, {})

(* init: setupTooltips() *)
TipSetup ==
  /\ op.created + op.rows <= MaxTooltips
  /\ op' = setupTooltips([op EXCEPT !.called = {}])
  /\ PageUntouched

(* selectNode: returns early for an unknown node, otherwise renders the node
   details, with rows tooltip rows, and ends in setupTooltips *)
TipSelectNode(found, rows) ==
  /\ op.created + rows <= MaxTooltips
  /\ op' = IF found THEN setupTooltips([op EXCEPT !.called = {}, !.rows = rows])
           ELSE [op EXCEPT !.called = {}]
  /\ PageUntouched

(* selectLink: returns early for an unknown link, otherwise renders the link
   details, which have no tooltip rows, and ends in setupTooltips *)
TipSelectLink(found) ==
  /\ op' = IF found THEN setupTooltips([op EXCEPT !.called = {}, !.rows = 0])
           ELSE [op EXCEPT !.called = {}]
  /\ PageUntouched

(* reset and loadSchema replace the sidebar content without setupTooltips *)
TipContentReplaced ==
  /\ op.rows # 0
  /\ op' = [op EXCEPT !.called = {}, !.rows = 0]
  /\ PageUntouched

NextTooltips ==
  \/ TipSetup
  \/ \E found \in BOOLEAN, rows \in 0..MaxRows : TipSelectNode(found, rows)
  \/ \E found \in BOOLEAN : TipSelectLink(found)
  \/ TipContentReplaced

SpecTooltips == InitTooltips /\ [][NextTooltips]_vars

(* C24: every sidebar tooltip instance that was created and is not in
   state.sidebarTooltips has been destroyed, each batch is destroyed before
   the next is created, and the header tooltips are created at most once. *)
C24_TooltipsNeverLeak ==
  /\ (1..op.created) \ InstancesOf(op.sidebarTooltips) \subseteq op.destroyed
  /\ op.liveAtCreate = {}
  /\ op.headerBatches <= 1

(* C24 witness: a second batch of two instances is held after the first
   batch was destroyed *)
C24_Witness ==
  /\ "setupTooltips" \in op.called
  /\ Len(op.sidebarTooltips) = 2
  /\ Cardinality(op.destroyed) >= 2
  /\ op.headerBatches = 1

-----------------------------------------------------------------------------
(* The navigation scroll handler (SpecScroll) *)

NavScrollThreshold == 2

(* __navScrollTicking__, the requestAnimationFrame callbacks not yet run, the
   scroll position, the data-nav-scrolled attribute and whether load has fired *)
NavScroll(ticking, pending, scrollY, attr, loaded) ==
  [called |-> {}, ticking |-> ticking, pending |-> pending, scrollY |-> scrollY,
   attr |-> attr, loaded |-> loaded]

applyNavScrolled(n) ==
  [n EXCEPT !.attr = IF n.scrollY > NavScrollThreshold THEN "1" ELSE "0",
            !.ticking = FALSE,
            !.called = @ \cup {"applyNavScrolled"}]

onNavScroll(n) ==
  IF ~n.ticking
  THEN [n EXCEPT !.ticking = TRUE, !.pending = @ + 1,
                 !.called = @ \cup {"requestAnimationFrame"}]
  ELSE n

InitScroll ==
  /\ files = Files
  /\ schema = Null
  /\ nodes = <<>>
  /\ Idle(Blank)
  /\ stack = <<>>
  /\ events = 0
  /\ op = NavScroll(FALSE, 0, 0, "", FALSE)

(* the user scrolls to y: 'scroll' listener *)
ScrollTo(y) ==
  /\ y # op.scrollY
  /\ op' = onNavScroll([op EXCEPT !.called = {}, !.scrollY = y])
  /\ PageUntouched

(* 'resize' listener *)
WindowResize ==
  /\ op' = onNavScroll([op EXCEPT !.called = {"resize"}])
  /\ PageUntouched

(* 'orientationchange' listener *)
OrientationChange ==
  /\ op' = onNavScroll([op EXCEPT !.called = {"orientationchange"}])
  /\ PageUntouched

(* 'load' listener: __applyNavScrolled__ is called directly *)
WindowLoad ==
  /\ ~op.loaded
  /\ op' = applyNavScrolled([op EXCEPT !.called = {"load"}, !.loaded = TRUE])
  /\ PageUntouched

(* the browser runs one pending animation frame callback *)
AnimationFrame ==
  /\ op.pending > 0
  /\ op' = applyNavScrolled([op EXCEPT !.called = {"frame"}, !.pending = @ - 1])
  /\ PageUntouched

NextScroll ==
  \/ \E y \in 0..MaxScroll : ScrollTo(y)
  \/ WindowResize
  \/ OrientationChange
  \/ WindowLoad
  \/ AnimationFrame

SpecScroll == InitScroll /\ [][NextScroll]_vars

(* C25: at any time at most one requestAnimationFrame callback scheduled by
   __onNavScroll__ is pending, and each fired callback sets data-nav-scrolled
   to the scroll position at the time it fires. *)
C25_ScrollDebounced ==
  /\ [](op.pending <= 1)
  /\ [][AnimationFrame =>
          op'.attr = IF op.scrollY > NavScrollThreshold THEN "1" ELSE "0"]_vars

-----------------------------------------------------------------------------
(* Properties of the depth of the initial graph (SpecExpand) *)

(* the targets of the relations of the nodes in S *)
TargetsOf(S) ==
  UNION {{nodes[i].relations[j].target : j \in 1..Len(nodes[i].relations)} :
         i \in {k \in 1..Len(nodes) : nodes[k].id \in S}}

(* the nodes reachable from S by following at most d relations *)
RECURSIVE WithinHops(_, _)
WithinHops(S, d) ==
  IF d = 0 THEN S ELSE WithinHops(S \cup TargetsOf(S), d - 1)

(* C26: after initializeGraph(d) with d >= 1 from a start node that is in the
   parsed map, displayedNodes is exactly the set of nodes reachable from it by
   following at most d relations. *)
C26_DisplayedWithinDepth ==
  (Done /\ MapHas(nodes, op.nodeId) /\ op.depth >= 1) =>
    displayedNodes = WithinHops({op.nodeId}, op.depth)

-----------------------------------------------------------------------------
(* Properties of the displayed links and of the selection (Spec) *)

(* C27: in every reachable state each link in displayedLinks has both its
   source and its target in displayedNodes and corresponds to a relation of
   its source node in state.nodes with the same target and property. *)
C27_LinksAreDisplayedRelations ==
  \A i \in 1..Len(displayedLinks) :
    /\ displayedLinks[i].source \in displayedNodes
    /\ displayedLinks[i].target \in displayedNodes
    /\ MapHas(nodes, displayedLinks[i].source)
    /\ HasRelation(MapGet(nodes, displayedLinks[i].source).relations,
                   displayedLinks[i].target, displayedLinks[i].property)

(* C29: in every reachable state a non-null selectedLink is the id of a link
   in displayedLinks, and a non-null selectedNode is a key of state.nodes that
   is in displayedNodes. *)
C29_SelectionIsDisplayed ==
  /\ selectedLink # Null => selectedLink \in LinkIds(displayedLinks)
  /\ selectedNode # Null =>
       MapHas(nodes, selectedNode) /\ selectedNode \in displayedNodes

-----------------------------------------------------------------------------
(* Schema switches and the session history (SpecHistory) *)

(* the session history: its entries, each with the state object given to
   pushState or replaceState and its URL, and the index of the current one;
   the URL of the current entry is the variable url *)
History(entries, at) == [entries |-> entries, at |-> at]

Entry(historyState, u) == [state |-> historyState, url |-> u]

(* replaceState(null, '', newUrl) on the current entry *)
replaceState(h, u) == [h EXCEPT !.entries[h.at] = Entry(Null, u)]

(* pushState(historyState, '', newUrl): the entries after the current one go *)
pushState(h, historyState, u) ==
  History(Append(SubSeq(h.entries, 1, h.at), Entry(historyState, u)), h.at + 1)

InitHistory ==
  \E u \in InitialURLs :
    /\ files = Files
    /\ Idle(PageLoad(u))
    /\ schema = Null
    /\ nodes = <<>>
    /\ stack = History(<<Entry(Null, u)>>, 1)
    /\ events = 0
    /\ op = [called |-> {"init"}]

(* a schema fetch completes; updateURL, if it ran, replaced the current entry *)
HistoryFetchResolve(i, ok) ==
  /\ i \in 1..Len(inflight)
  /\ LET name == inflight[i]
         s == [Cur EXCEPT !.inflight = SubSeq(inflight, 1, i - 1)
                                       \o SubSeq(inflight, i + 1, Len(inflight))]
         r == IF ok THEN loadSchemaApply(s, name, files[name]) ELSE loadSchemaFailed(s)
     IN CommitHistory(r, "FetchResolve",
                      IF "updateURL" \in r.called THEN replaceState(stack, r.url)
                      ELSE stack)

(* schema selection: the new URL is pushed with the state {schema} *)
HistorySchemaChange(newSchemaName) ==
  /\ newSchemaName # currentSchemaName
  /\ Len(inflight) < MaxInflight
  /\ stack.at < MaxHistory
  /\ LET r == schemaSelectChange(Cur, newSchemaName)
     IN CommitHistory(r, "SchemaChange",
                      pushState([stack EXCEPT !.entries[stack.at].url = url],
                                newSchemaName, r.url))

(* browser back (-1) or forward (+1): the URL of the entry becomes the
   location and popstate is dispatched with the state of the entry *)
HistoryGo(delta) ==
  /\ stack.at + delta \in 1..Len(stack.entries)
  /\ Len(inflight) < MaxInflight
  /\ LET h == [stack EXCEPT !.entries[stack.at].url = url]
         entry == h.entries[stack.at + delta]
     IN CommitHistory(popstate([Cur EXCEPT !.url = entry.url], entry.state),
                      "popstate", [h EXCEPT !.at = stack.at + delta])

NextHistory ==
  \/ \E i \in 1..MaxInflight, ok \in BOOLEAN : HistoryFetchResolve(i, ok)
  \/ \E name \in SCHEMAS : HistorySchemaChange(name)
  \/ \E delta \in {-1, 1} : HistoryGo(delta)

SpecHistory == InitHistory /\ [][NextHistory]_vars

(* C28: whenever no schema fetch is in flight and the last load succeeded,
   state.currentSchemaName, the app-level currentSchemaName and the root key
   of state.nodes are the same, and that root node is in displayedNodes
   (stated for the pages whose URL names no node and no link to start from). *)
C28_SchemaNamesAgree ==
  (/\ inflight = <<>> /\ nodes # <<>> /\ sidebar.kind # "error"
   /\ url["node"] = Null /\ url["link"] = Null) =>
    /\ stateCurrentSchemaName = currentSchemaName
    /\ nodes[1].id = currentSchemaName
    /\ currentSchemaName \in displayedNodes

-----------------------------------------------------------------------------
(* fetchWithRetry (SpecRetry)

   op holds one call of fetchWithRetry(url, retries, delay): the loop index
   i, the position of the call (awaiting the fetch of attempt i, awaiting
   the delay timer, or settled), the outcomes of the attempts made so far,
   the number of delays awaited and how the returned promise settled.
   An attempt has one of four outcomes: the response is ok and its body is
   read ("ok"), the response is not ok ("notok"), fetch rejects ("throw"),
   or the response is ok and response.json() rejects ("badjson"). *)

Outcomes == {"ok", "notok", "throw", "badjson"}

Pending == [kind |-> "pending", of |-> 0]

RetryCall(retries) ==
  [called |-> {}, retries |-> retries, i |-> 0, pc |-> "fetch",
   seen |-> <<>>, waits |-> 0, result |-> Pending]

(* mutant of fetchAttempt: the catch block rethrows the error of every
   attempt *)
fetchAttemptRethrows(f, outcome) ==
  LET g == [f EXCEPT !.seen = Append(@, outcome), !.called = {"fetch"}]
  IN CASE outcome = "ok" ->
            [g EXCEPT !.pc = "done", !.result = [kind |-> "body", of |-> f.i]]
       [] outcome \in {"throw", "badjson"} ->
            [g EXCEPT !.pc = "done", !.result = [kind |-> "throw", of |-> f.i]]
       [] OTHER ->
            IF f.i < f.retries
            THEN [g EXCEPT !.pc = "wait", !.called = @ \cup {"setTimeout"}]
            ELSE [g EXCEPT !.pc = "done", !.i = @ + 1,
                           !.result = [kind |-> "null", of |-> f.i]]

(* one pass of the loop body from `await fetch(url)` up to the next await
   or to the settling of the call *)
fetchAttempt(f, outcome) ==
  LET g == [f EXCEPT !.seen = Append(@, outcome), !.called = {"fetch"}]
  IN CASE outcome = "ok" ->
            [g EXCEPT !.pc = "done", !.result = [kind |-> "body", of |-> f.i]]
       [] outcome \in {"throw", "badjson"} /\ f.i = f.retries ->
            [g EXCEPT !.pc = "done", !.result = [kind |-> "throw", of |-> f.i]]
       [] OTHER ->
            IF f.i < f.retries
            THEN [g EXCEPT !.pc = "wait", !.called = @ \cup {"setTimeout"}]
            ELSE [g EXCEPT !.pc = "done", !.i = @ + 1,
                           !.result = [kind |-> "null", of |-> f.i]]

(* the delay timer resolves the awaited promise: i++ and the next pass *)
delayElapsed(f) ==
  [f EXCEPT !.pc = "fetch", !.i = @ + 1, !.waits = @ + 1, !.called = {"timer"}]

InitRetry ==
  /\ files = Files
  /\ schema = Null
  /\ nodes = <<>>
  /\ Idle(Blank)
  /\ stack = <<>>
  /\ events = 0
  /\ \E retries \in 0..MaxRetries : op = RetryCall(retries)

(* the fetch of attempt i settles *)
FetchSettles(outcome) ==
  /\ op.pc = "fetch"
  /\ op' = fetchAttempt(op, outcome)
  /\ PageUntouched

(* the setTimeout(resolve, delay) callback runs *)
DelayTimer ==
  /\ op.pc = "wait"
  /\ op' = delayElapsed(op)
  /\ PageUntouched

NextRetry ==
  \/ \E outcome \in Outcomes : FetchSettles(outcome)
  \/ DelayTimer

(* every fetch settles and every timer fires *)
SpecRetry == InitRetry /\ [][NextRetry]_vars /\ WF_vars(NextRetry)

(* the attempts made so far whose outcome is in S *)
AttemptsWith(S) == {k \in 1..Len(op.seen) : op.seen[k] \in S}

(* the settled call agrees with the attempts: ok is the set of outcomes that
   count as an ok response, thrown the set that counts as a thrown attempt *)
RetrySettledAs(ok, thrown) ==
  op.pc = "done" =>
    /\ op.waits = Len(op.seen) - 1
    /\ IF AttemptsWith(ok) # {}
       THEN /\ AttemptsWith(ok) = {Len(op.seen)}
            /\ op.result = [kind |-> "body", of |-> Len(op.seen) - 1]
       ELSE /\ Len(op.seen) = op.retries + 1
            /\ op.result.kind = IF op.seen[Len(op.seen)] \in thrown
                                THEN "throw" ELSE "null"

(* C30 (amended): fetchWithRetry settles after at most retries + 1 fetch
   attempts; it returns the body of the first ok response whose body is read
   and makes no further attempt, waits delay between consecutive attempts
   and never after the last one, returns null when the last attempt gives a
   non-ok response, and throws only when the last attempt throws, where an
   ok response whose response.json() rejects counts as a thrown attempt. *)
C30_RetryBounded ==
  /\ [](Len(op.seen) <= op.retries + 1 /\ op.waits <= Len(op.seen))
  /\ <>(op.pc = "done")
  /\ [](RetrySettledAs({"ok"}, {"throw", "badjson"}))

(* C30 witness: a call with retries > 0 that swallowed an error, waited, got
   a non-ok response and then returned the body of a later ok response *)
C30_Witness ==
  /\ op.pc = "done"
  /\ op.retries > Len(op.seen) - 1
  /\ op.result.kind = "body"
  /\ AttemptsWith({"throw"}) # {}
  /\ AttemptsWith({"notok"}) # {}

(* C30 as stated: the body of the first ok response is returned and no
   further attempt is made, every response with response.ok counted as an
   ok response *)
C30_FirstOkResponse ==
  RetrySettledAs({"ok", "badjson"}, {"throw"})

====
